---- MODULE Spec2Model ----
(***************************************************************************)
(* Model of the content orchestrators of Skill-Tree:                       *)
(*   src/src/utils/generateLessons.js          generateLessons             *)
(*   src/src/utils/generateLessonChallenge.js  generateLessonChallenge     *)
(*   src/unnamed/part_001 (evaluateAnswer.js)  evaluateAnswer              *)
(* Each is an async function: one fetch, one body decode, a slice of the   *)
(* completion text between the first opening and the last closing          *)
(* delimiter, JSON.parse, a field-by-field `||` defaulting, and a catch    *)
(* block that computes local fallback content.                             *)
(***************************************************************************)
EXTENDS Integers, Sequences, FiniteSets, TLC

\* The state of one invocation of an orchestrator and of its caller.
VARIABLES
  fn,         \* the orchestrator that is invoked
  ctx,        \* its argument
  pc,         \* "idle" | "awaiting" | "decoding" | "done" | "rejected"
  requests,   \* fetch calls issued by this invocation
  fallbacks,  \* times the catch block ran in this invocation
  httpOk,     \* response.ok of the response received
  reply,      \* what the completion service answered
  failure,    \* "none" | "prompt" | "network" | "body" | "content"
  result,     \* the value the promise resolved to
  previous,   \* the last earlier invocation that ended in the catch block
  userState,      \* UserContext: the signed-in profile, or null
  location,       \* the route that is rendered
  mounts,         \* component instances mounted so far; the newest is current
  skillDashboard, \* state hooks of SkillDashboard
  lessonPage,     \* state hooks of LessonPage
  inFlight,       \* promises and timers that have not yet run their continuation
  history,        \* what has happened so far in the session (for the properties)
  localStorage,   \* the entries 'user' and 'accounts' of window.localStorage
  accountPages    \* state hooks of SignIn and CreateAccount

callVars == <<fn, ctx, pc, requests, fallbacks, httpOk, reply, failure, result, previous>>

sessionVars ==
  <<userState, location, mounts, skillDashboard, lessonPage, inFlight, history,
    localStorage, accountPages>>

vars == <<callVars, sessionVars>>

NoPrevious == [fn |-> "none"]

\* ------------------------------------------------------------------------
\* JavaScript values.  A value is a tagged tuple; the tag comes first so
\* that two values of different types are unequal without comparing
\* payloads.  A string is a sequence of text chunks (template literals
\* concatenate chunks; the empty string has no chunk).
\* ------------------------------------------------------------------------
Undefined == <<"undefined">>
Null == <<"null">>
NaN == <<"NaN">>
Bool(b) == <<"boolean", b>>
Num(n) == <<"number", n>>
Str(chunks) == <<"string", chunks>>
Arr(elems) == <<"array", elems>>
Obj(fields) == <<"object", fields>>
Text(s) == Str(<<s>>)
EmptyStr == Str(<<>>)
EmptyObj == Obj([k \in {} |-> Undefined])

Tag(v) == v[1]
IsStr(v) == Tag(v) = "string"
IsArr(v) == Tag(v) = "array"
IsObj(v) == Tag(v) = "object"
IsNullish(v) == v = Undefined \/ v = Null

\* ToBoolean: undefined, null, false, 0, NaN and "" are falsy.
Truthy(v) ==
  ~ \/ IsNullish(v)
    \/ v = NaN
    \/ v = Bool(FALSE)
    \/ v = Num(0)
    \/ v = EmptyStr

\* a || b
OrElse(a, b) == IF Truthy(a) THEN a ELSE b

\* The property read v.key of a non-nullish value: own fields of an object,
\* undefined for any other key and for primitives and arrays (no JSON value
\* carries one of the field names read by the orchestrators).  Reading a
\* property of undefined or null throws; callers test IsNullish first.
Get(v, key) ==
  IF IsObj(v) /\ <<key>> \in DOMAIN v[2] THEN v[2][<<key>>] ELSE Undefined

\* `${v}` inside a template literal.
Interp(v) ==
  CASE IsStr(v) -> v[2]
    [] v = Undefined -> <<"undefined">>
    [] v = Null -> <<"null">>
    [] OTHER -> <<"?">>

\* Helper for building object values: a record of fields, keyed by the
\* one-chunk strings of its field names.
Fields(rec) == [k \in {<<n>> : n \in DOMAIN rec} |-> rec[k[1]]]
ObjOf(rec) == Obj(Fields(rec))

\* ------------------------------------------------------------------------
\* Completion text.  The text is a sequence of tokens: the six JSON
\* punctuation characters, string / number / keyword literals (one token
\* each; the string literals used carry no bracket or brace), whitespace,
\* and prose characters that belong to no JSON token.
\* ------------------------------------------------------------------------
P(c) == <<"p", c>>
S(chunks) == <<"s", chunks>>
N(n) == <<"n", n>>
K(word) == <<"k", word>>
W == <<"w">>
X == <<"x">>

\* String.prototype.indexOf / lastIndexOf for a one-character needle:
\* 0-based position, or -1 when the character does not occur.
IndexOf(text, c) ==
  IF \E i \in 1..Len(text) : text[i] = P(c)
    THEN (CHOOSE i \in 1..Len(text) :
            /\ text[i] = P(c)
            /\ \A j \in 1..(i - 1) : text[j] # P(c)) - 1
    ELSE -1

LastIndexOf(text, c) ==
  IF \E i \in 1..Len(text) : text[i] = P(c)
    THEN (CHOOSE i \in 1..Len(text) :
            /\ text[i] = P(c)
            /\ \A j \in (i + 1)..Len(text) : text[j] # P(c)) - 1
    ELSE -1

\* String.prototype.substring(a, b): both arguments are clamped to
\* [0, length] and swapped when a > b.
Clamp(n, len) == IF n < 0 THEN 0 ELSE IF n > len THEN len ELSE n
Substring(text, a, b) ==
  LET ca == Clamp(a, Len(text))
      cb == Clamp(b, Len(text))
      lo == IF ca <= cb THEN ca ELSE cb
      hi == IF ca <= cb THEN cb ELSE ca
  IN SubSeq(text, lo + 1, hi)

\* JSON.parse, by recursive descent over the tokens.  A parse step yields
\* <<ok, value, position after the value>>.
ParseFail == <<FALSE, Undefined, 0>>

SkipWs(text, i) ==
  IF \E j \in i..Len(text) : text[j] # W
    THEN CHOOSE j \in i..Len(text) :
           /\ text[j] # W
           /\ \A k \in i..(j - 1) : text[k] = W
    ELSE Len(text) + 1

KeywordValue(word) ==
  CASE word = "true" -> Bool(TRUE)
    [] word = "false" -> Bool(FALSE)
    [] OTHER -> Null

RECURSIVE ParseValue(_, _), ParseElems(_, _, _), ParseMembers(_, _, _)

ParseValue(text, i) ==
  LET j == SkipWs(text, i) IN
  IF j > Len(text) THEN ParseFail
  ELSE LET tok == text[j] IN
    CASE tok[1] = "s" -> <<TRUE, Str(tok[2]), j + 1>>
      [] tok[1] = "n" -> <<TRUE, Num(tok[2]), j + 1>>
      [] tok[1] = "k" -> <<TRUE, KeywordValue(tok[2]), j + 1>>
      [] tok = P("[") ->
           LET k == SkipWs(text, j + 1) IN
           IF k <= Len(text) /\ text[k] = P("]")
             THEN <<TRUE, Arr(<<>>), k + 1>>
             ELSE ParseElems(text, j + 1, <<>>)
      [] tok = P("{") ->
           LET k == SkipWs(text, j + 1) IN
           IF k <= Len(text) /\ text[k] = P("}")
             THEN <<TRUE, EmptyObj, k + 1>>
             ELSE ParseMembers(text, j + 1, EmptyObj[2])
      [] OTHER -> ParseFail

ParseElems(text, i, acc) ==
  LET r == ParseValue(text, i) IN
  IF ~r[1] THEN ParseFail
  ELSE LET k == SkipWs(text, r[3]) IN
    IF k > Len(text) THEN ParseFail
    ELSE IF text[k] = P(",") THEN ParseElems(text, k + 1, Append(acc, r[2]))
    ELSE IF text[k] = P("]") THEN <<TRUE, Arr(Append(acc, r[2])), k + 1>>
    ELSE ParseFail

\* A repeated key keeps its last value.
ParseMembers(text, i, acc) ==
  LET j == SkipWs(text, i)
      c == SkipWs(text, j + 1)
  IN
  IF j > Len(text) \/ c > Len(text) THEN ParseFail
  ELSE IF text[j][1] # "s" \/ text[c] # P(":") THEN ParseFail
  ELSE LET r == ParseValue(text, c + 1) IN
    IF ~r[1] THEN ParseFail
    ELSE LET k == SkipWs(text, r[3])
             key == text[j][2]
             next == [x \in DOMAIN acc \cup {key} |->
                        IF x = key THEN r[2] ELSE acc[x]]
         IN
      IF k > Len(text) THEN ParseFail
      ELSE IF text[k] = P(",") THEN ParseMembers(text, k + 1, next)
      ELSE IF text[k] = P("}") THEN <<TRUE, Obj(next), k + 1>>
      ELSE ParseFail

\* JSON.parse(text): the whole text must be one value; anything else is a
\* SyntaxError (ok = FALSE).
JSONParse(text) ==
  LET r == ParseValue(text, 1) IN
  IF r[1] /\ SkipWs(text, r[3]) > Len(text)
    THEN [ok |-> TRUE, val |-> r[2]]
    ELSE [ok |-> FALSE, val |-> Undefined]

\* JSON.stringify of a JSON value (what the completion service does when it
\* writes a payload): no whitespace, members in the object's key order.
RECURSIVE Stringify(_), StringifyElems(_), StringifyMembers(_, _)

Stringify(v) ==
  CASE Tag(v) = "string" -> <<S(v[2])>>
    [] Tag(v) = "number" -> <<N(v[2])>>
    [] Tag(v) = "boolean" -> <<K(IF v[2] THEN "true" ELSE "false")>>
    [] Tag(v) = "array" -> <<P("[")>> \o StringifyElems(v[2]) \o <<P("]")>>
    [] Tag(v) = "object" ->
         <<P("{")>> \o StringifyMembers(v[2], DOMAIN v[2]) \o <<P("}")>>
    [] OTHER -> <<K("null")>>

StringifyElems(elems) ==
  IF elems = <<>> THEN <<>>
  ELSE Stringify(Head(elems))
         \o (IF Len(elems) > 1 THEN <<P(",")>> ELSE <<>>)
         \o StringifyElems(Tail(elems))

StringifyMembers(fields, keys) ==
  IF keys = {} THEN <<>>
  ELSE LET k == CHOOSE x \in keys : TRUE IN
       <<S(k), P(":")>> \o Stringify(fields[k])
         \o (IF keys = {k} THEN <<>> ELSE <<P(",")>>)
         \o StringifyMembers(fields, keys \ {k})

\* ------------------------------------------------------------------------
\* Completions of a block of code: it returns a value or it throws.
\* ------------------------------------------------------------------------
Return(v) == [kind |-> "return", val |-> v]
Throw == [kind |-> "throw", val |-> Undefined]

\* data.choices?.[0]?.message?.content || ""   (data is not nullish)
FirstElem(v) == IF IsArr(v) /\ Len(v[2]) > 0 THEN v[2][1] ELSE Undefined
RawContent(data) ==
  LET choices == Get(data, "choices")
      first == IF IsNullish(choices) THEN Undefined ELSE FirstElem(choices)
      message == IF IsNullish(first) THEN Undefined ELSE Get(first, "message")
      content == IF IsNullish(message) THEN Undefined ELSE Get(message, "content")
  IN OrElse(content, EmptyStr)

\* Extract with the slice ended at the first `close` instead of the last.
ExtractToFirstClose(text, open, close) ==
  JSONParse(Substring(text, IndexOf(text, open), IndexOf(text, close) + 1))

\* The slice between the first `open` and the last `close`, parsed.
\*   const start = rawContent.indexOf(open);
\*   const end = rawContent.lastIndexOf(close) + 1;
\*   JSON.parse(rawContent.substring(start, end))
Extract(text, open, close) ==
  JSONParse(Substring(text, IndexOf(text, open), LastIndexOf(text, close) + 1))

\* ------------------------------------------------------------------------
\* generateLessons
\* ------------------------------------------------------------------------
\* The prompt reads user.skills?.join(", "): a TypeError when user is
\* nullish or skills is neither nullish nor an array.
PromptThrowsLessons(user) ==
  \/ IsNullish(user)
  \/ ~IsNullish(Get(user, "skills")) /\ ~IsArr(Get(user, "skills"))

NormalizeLessonChallenge(c) ==
  ObjOf([scenario |-> OrElse(Get(c, "scenario"),
                             Text("A realistic scenario to practice the skill.")),
         question |-> OrElse(Get(c, "question"),
                             Text("Apply the skill to solve this challenge.")),
         hint |-> OrElse(Get(c, "hint"),
                         Text("Think critically and use best practices."))])

\* lesson.challenges.map(...) over the elements of the array value.
NormalizeLessonChallenges(a) ==
  Arr([i \in 1..Len(a[2]) |-> NormalizeLessonChallenge(a[2][i])])

\* NormalizeLesson without the default for relevance.
NormalizeLessonNoDefault(lesson) ==
  ObjOf([title |-> OrElse(Get(lesson, "title"), Text("Untitled Lesson")),
         description |-> OrElse(Get(lesson, "description"),
                                Text("No description available.")),
         relevance |-> Get(lesson, "relevance"),
         challenges |-> IF IsArr(Get(lesson, "challenges"))
                          THEN NormalizeLessonChallenges(Get(lesson, "challenges"))
                          ELSE Arr(<<>>)])

\* NormalizeLesson with relevance read from the description field.
NormalizeLessonSwapped(lesson) ==
  ObjOf([title |-> OrElse(Get(lesson, "title"), Text("Untitled Lesson")),
         description |-> OrElse(Get(lesson, "description"),
                                Text("No description available.")),
         relevance |-> OrElse(Get(lesson, "description"),
                              Text("Relevant to your career growth.")),
         challenges |-> IF IsArr(Get(lesson, "challenges"))
                          THEN NormalizeLessonChallenges(Get(lesson, "challenges"))
                          ELSE Arr(<<>>)])

NormalizeLesson(lesson) ==
  ObjOf([title |-> OrElse(Get(lesson, "title"), Text("Untitled Lesson")),
         description |-> OrElse(Get(lesson, "description"),
                                Text("No description available.")),
         relevance |-> OrElse(Get(lesson, "relevance"),
                              Text("Relevant to your career growth.")),
         challenges |-> IF IsArr(Get(lesson, "challenges"))
                          THEN NormalizeLessonChallenges(Get(lesson, "challenges"))
                          ELSE Arr(<<>>)])

\* parsed.map(...) over the elements of the array value.
NormalizeLessons(a) == Arr([i \in 1..Len(a[2]) |-> NormalizeLesson(a[2][i])])

\* lesson.title on a nullish lesson, c.scenario on a nullish challenge.
LessonThrows(lesson) ==
  \/ IsNullish(lesson)
  \/ /\ IsArr(Get(lesson, "challenges"))
     /\ \E i \in 1..Len(Get(lesson, "challenges")[2]) :
          IsNullish(Get(lesson, "challenges")[2][i])

\* Everything of the try block after `await aiResponse.json()`.
ProcessLessons(user, data) ==
  IF IsNullish(data) THEN Throw
  ELSE LET raw == RawContent(data) IN
    IF ~IsStr(raw) THEN Throw
    ELSE LET parsed == Extract(raw[2], "[", "]") IN
      IF ~parsed.ok THEN Throw
      ELSE IF ~IsArr(parsed.val) THEN Throw
      ELSE IF \E i \in 1..Len(parsed.val[2]) : LessonThrows(parsed.val[2][i])
        THEN Throw
      ELSE Return(NormalizeLessons(parsed.val))

SkillLesson(skill) ==
  ObjOf([title |-> Str(<<"Strengthen Your ">> \o Interp(skill) \o <<" Skills">>),
         description |->
           Str(<<"Deepen your knowledge and practical application of ">>
               \o Interp(skill) \o <<" in professional settings.">>),
         relevance |->
           Str(Interp(skill)
               \o <<" is a valuable skill that can be applied across many industries and roles.">>),
         challenges |-> Arr(<<
           ObjOf([scenario |->
                    Str(<<"You are in a professional setting where you need to apply ">>
                        \o Interp(skill)
                        \o <<". Consider the context, stakeholders, and objectives involved.">>),
                  question |->
                    Str(<<"Describe a real-world scenario where you would use ">>
                        \o Interp(skill) \o <<" and explain your approach.">>),
                  hint |-> Text("Think about practical steps, industry best practices, and how this skill creates value in professional contexts.")])>>)])

\* skills.slice(0, 3).map(...) over the elements of the array value.
SkillLessons(a) == Arr([i \in 1..Len(a[2]) |-> SkillLesson(a[2][i])])

UniversalLesson(title, description, relevance, scenario, question, hint) ==
  ObjOf([title |-> Text(title),
         description |-> Text(description),
         relevance |-> Text(relevance),
         challenges |-> Arr(<<ObjOf([scenario |-> Text(scenario),
                                     question |-> Text(question),
                                     hint |-> Text(hint)])>>)])

UniversalLessons ==
  Arr(<<
    UniversalLesson(
      "Effective Problem-Solving Strategies",
      "Practice structured approaches to analyze and solve complex challenges in any professional setting.",
      "Problem-solving is universally valuable across all industries and career paths.",
      "You encounter a complex challenge or problem in your workplace that requires careful analysis and a strategic solution.",
      "Describe your step-by-step approach to understanding, analyzing, and solving this problem.",
      "Break the problem into smaller components, identify root causes, consider multiple perspectives, and evaluate potential solutions."),
    UniversalLesson(
      "Professional Communication and Stakeholder Management",
      "Develop skills in clear communication, active listening, and managing relationships with colleagues, clients, and stakeholders.",
      "Strong communication skills are essential for success in any field and help build trust and collaboration.",
      "You need to communicate an important message to multiple stakeholders who have different perspectives, priorities, and communication styles.",
      "How would you tailor your communication approach to ensure each stakeholder understands and engages with your message?",
      "Consider audience analysis, message framing, communication channels, and follow-up strategies."),
    UniversalLesson(
      "Time Management and Prioritization",
      "Learn to effectively manage your time, prioritize tasks, and balance competing demands in professional settings.",
      "Efficient time management improves productivity and work-life balance in any career.",
      "You have multiple important projects, deadlines, and responsibilities competing for your attention with limited time available.",
      "How would you prioritize your tasks, manage your schedule, and ensure critical work gets completed on time?",
      "Consider urgency vs. importance, breaking down large tasks, delegation opportunities, and realistic time estimates.")>>)

\* skills.slice(-3) in place of skills.slice(0, 3)
LastThree(skills) ==
  Arr(SubSeq(skills[2],
             IF Len(skills[2]) < 3 THEN 1 ELSE Len(skills[2]) - 2,
             Len(skills[2])))

\* skills.slice(0, 3)
FirstThree(skills) ==
  Arr(SubSeq(skills[2], 1, IF Len(skills[2]) < 3 THEN Len(skills[2]) ELSE 3))

\* A catch block that serves the universal lessons once an earlier
\* invocation has fallen back.
FallbackLessonsRemembering(user) ==
  LET given == Get(user, "skills")
      skills == IF given = Undefined THEN Arr(<<>>) ELSE given
  IN
  IF skills = Null THEN Throw
  ELSE IF IsArr(skills) /\ Len(skills[2]) > 0 /\ previous.fn = "none"
    THEN Return(SkillLessons(Arr(SubSeq(skills[2], 1, 1))))
  ELSE Return(UniversalLessons)

\* The catch block.  `const { skills = [], careerAnswers = {} } = user`
\* throws on a nullish user and defaults only an undefined skills;
\* skills.length throws on null; a non-empty string has a length and a
\* slice but no map.  (industryInterests / firstIndustry are computed with
\* optional chaining, cannot throw, and are not used in the result.)
FallbackLessons(user) ==
  IF IsNullish(user) THEN Throw
  ELSE LET given == Get(user, "skills")
           skills == IF given = Undefined THEN Arr(<<>>) ELSE given
       IN
    IF skills = Null THEN Throw
    ELSE IF IsArr(skills) /\ Len(skills[2]) > 0
      THEN Return(SkillLessons(FirstThree(skills)))
    ELSE IF IsStr(skills) /\ skills # EmptyStr THEN Throw
    ELSE Return(UniversalLessons)

\* ------------------------------------------------------------------------
\* generateLessonChallenge
\* ------------------------------------------------------------------------
NormalizeChallenge(context, parsed) ==
  ObjOf([scenario |-> OrElse(Get(parsed, "scenario"),
                             Str(<<"Imagine a scenario applying ">>
                                 \o Interp(Get(context, "lessonTitle"))
                                 \o <<" in ">> \o Interp(Get(context, "industry"))
                                 \o <<".">>)),
         challenge |-> OrElse(Get(parsed, "challenge"),
                              Str(<<"Apply ">> \o Interp(Get(context, "lessonTitle"))
                                  \o <<" to solve a problem in this scenario.">>)),
         hint |-> OrElse(Get(parsed, "hint"),
                         Text("Think about best practices and steps to solve the challenge."))])

ProcessChallenge(context, data) ==
  IF IsNullish(data) THEN Throw
  ELSE LET raw == RawContent(data) IN
    IF ~IsStr(raw) THEN Throw
    ELSE LET parsed == Extract(raw[2], "{", "}") IN
      IF ~parsed.ok THEN Throw
      ELSE IF IsNullish(parsed.val) THEN Throw
      ELSE Return(NormalizeChallenge(context, parsed.val))

\* industry && industry !== "general" ? industry : "your professional field"
IndustryContext(industry) ==
  IF Truthy(industry) /\ industry # Text("general")
    THEN industry
    ELSE Text("your professional field")

FallbackChallenge(context) ==
  LET where == Interp(IndustryContext(Get(context, "industry")))
      title == Interp(Get(context, "lessonTitle"))
  IN Return(ObjOf([
       scenario |->
         Str(<<"Imagine you are in a realistic professional setting in ">>
             \o where \o <<" where you need to apply ">> \o title
             \o <<". Consider the workplace environment, colleagues or clients involved, and the potential impact of your actions.">>),
       challenge |->
         Str(<<"Describe a specific real-world situation in ">> \o where
             \o <<" where you would apply ">> \o title
             \o <<". Explain your approach to addressing this situation effectively.">>),
       hint |-> Text("Think about professional best practices, key considerations specific to your field, the stakeholders involved, and practical steps that lead to successful outcomes.")]))

\* ------------------------------------------------------------------------
\* evaluateAnswer
\* ------------------------------------------------------------------------
\* ToNumber, as Math.min applies it to its argument.
DecimalText(chunks) ==
  CASE chunks = <<>> -> Num(0)
    [] chunks = <<"85">> -> Num(85)
    [] chunks = <<"150">> -> Num(150)
    [] OTHER -> NaN

RECURSIVE ToNumber(_)
ToNumber(v) ==
  CASE Tag(v) = "number" -> v
    [] Tag(v) = "boolean" -> IF v[2] THEN Num(1) ELSE Num(0)
    [] Tag(v) = "string" -> DecimalText(v[2])
    [] v = Null -> Num(0)
    [] Tag(v) = "array" ->
         IF Len(v[2]) = 0 THEN Num(0)
         ELSE IF Len(v[2]) > 1 THEN NaN
         ELSE IF IsNullish(v[2][1]) THEN Num(0)
         ELSE IF Tag(v[2][1]) \in {"boolean", "object"} THEN NaN
         ELSE ToNumber(v[2][1])
    [] OTHER -> NaN

MathMin(n, v) ==
  LET x == ToNumber(v) IN
  IF x = NaN THEN NaN ELSE IF x[2] < n THEN x ELSE Num(n)

MathMax(n, v) ==
  LET x == ToNumber(v) IN
  IF x = NaN THEN NaN ELSE IF x[2] > n THEN x ELSE Num(n)

NormalizeEvaluation(parsed) ==
  ObjOf([isCorrect |-> OrElse(Get(parsed, "isCorrect"), Bool(FALSE)),
         score |-> MathMax(0, MathMin(100, OrElse(Get(parsed, "score"), Num(0)))),
         feedback |-> OrElse(Get(parsed, "feedback"),
                             Text("Your answer has been received. Please review the challenge and try again.")),
         suggestions |-> OrElse(Get(parsed, "suggestions"),
                                Text("Consider reviewing the scenario and challenge requirements.")),
         canProceed |-> OrElse(Get(parsed, "canProceed"), Bool(FALSE))])

ProcessEvaluation(context, data) ==
  IF IsNullish(data) THEN Throw
  ELSE LET raw == RawContent(data) IN
    IF ~IsStr(raw) THEN Throw
    ELSE LET parsed == Extract(raw[2], "{", "}") IN
      IF ~parsed.ok THEN Throw
      ELSE IF IsNullish(parsed.val) THEN Throw
      ELSE Return(NormalizeEvaluation(parsed.val))

\* Text of answers, challenges and skill names: chunks are whole words,
\* runs of spaces, or runs of filler letters, with these character counts.
Spaces == {" ", "          ", "(190 spaces)"}
ChunkLen(c) ==
  CASE c = " " -> 1
    [] c = "          " -> 10
    [] c \in {"the", "our"} -> 3
    [] c \in {"plan", "Plan"} -> 4
    [] c \in {"budget", "Budget", "design"} -> 6
    [] c \in {"problem", "Problem", "analyze"} -> 7
    [] c \in {"solution", "approach", "strategy"} -> 8
    [] c = "forecasting" -> 11
    [] c = "(40 letters)" -> 40
    [] c = "(90 letters)" -> 90
    [] c \in {"(190 letters)", "(190 spaces)"} -> 190
    [] c \in {"Budgeting", "budgeting"} -> 9
    [] OTHER -> 5

\* String.prototype.toLowerCase, chunk by chunk.
LowerChunk(c) ==
  CASE c = "Plan" -> "plan"
    [] c = "Budget" -> "budget"
    [] c = "Problem" -> "problem"
    [] c = "Budgeting" -> "budgeting"
    [] OTHER -> c
ToLowerCase(chunks) == [i \in 1..Len(chunks) |-> LowerChunk(chunks[i])]

RECURSIVE TextLen(_)
TextLen(chunks) ==
  IF chunks = <<>> THEN 0 ELSE ChunkLen(Head(chunks)) + TextLen(Tail(chunks))

\* String.prototype.trim
RECURSIVE TrimLeft(_)
TrimLeft(chunks) ==
  IF chunks # <<>> /\ Head(chunks) \in Spaces
    THEN TrimLeft(Tail(chunks)) ELSE chunks
RECURSIVE TrimRight(_)
TrimRight(chunks) ==
  IF chunks # <<>> /\ chunks[Len(chunks)] \in Spaces
    THEN TrimRight(SubSeq(chunks, 1, Len(chunks) - 1)) ELSE chunks
Trim(chunks) == TrimRight(TrimLeft(chunks))

\* split(' ') followed by filter(word => word.length > min): the words
\* between spaces that are longer than min (the empty words that a run of
\* spaces yields are never longer).
RECURSIVE LongWords(_, _, _)
LongWords(chunks, word, min) ==
  LET keep == IF TextLen(word) > min THEN <<word>> ELSE <<>> IN
  IF chunks = <<>> THEN keep
  ELSE IF Head(chunks) \in Spaces
    THEN keep \o LongWords(Tail(chunks), <<>>, min)
    ELSE LongWords(Tail(chunks), Append(word, Head(chunks)), min)

\* String.prototype.includes, on chunk boundaries.
Includes(chunks, word) ==
  \E i \in 1..(Len(chunks) - Len(word) + 1) :
    SubSeq(chunks, i, i + Len(word) - 1) = word

GenericTerms ==
  << <<"problem">>, <<"solution">>, <<"approach">>, <<"strategy">>,
     <<"method">>, <<"technique">>, <<"analyze">>, <<"evaluate">>,
     <<"implement">>, <<"design">>, <<"create">>, <<"develop">> >>

\* checkForKeywords asking for three matching entries.
checkForKeywordsThree(userAnswer, challenge, skill) ==
  LET answer == ToLowerCase(userAnswer[2])
      challengeText == ToLowerCase(challenge[2])
      skillText == IF IsNullish(skill) THEN <<>> ELSE ToLowerCase(skill[2])
      keywords == LongWords(challengeText, <<>>, 4)
                    \o LongWords(skillText, <<>>, 3)
                    \o GenericTerms
  IN Cardinality({i \in 1..Len(keywords) : Includes(answer, keywords[i])}) >= 3

\* checkForKeywords(userAnswer, challenge, skill), all three strings (skill
\* possibly nullish): at least two entries of the keyword list occur in the
\* lower-cased answer.
checkForKeywords(userAnswer, challenge, skill) ==
  LET answer == ToLowerCase(userAnswer[2])
      challengeText == ToLowerCase(challenge[2])
      skillText == IF IsNullish(skill) THEN <<>> ELSE ToLowerCase(skill[2])
      keywords == LongWords(challengeText, <<>>, 4)
                    \o LongWords(skillText, <<>>, 3)
                    \o GenericTerms
  IN Cardinality({i \in 1..Len(keywords) : Includes(answer, keywords[i])}) >= 2

\* FallbackScore without the award for an answer longer than 200.
FallbackScoreNoLongAward(answerLength, hasKeywords) ==
  (IF answerLength > 50 THEN 30 ELSE 0)
    + (IF answerLength > 100 THEN 20 ELSE 0)
    + (IF hasKeywords THEN 40 ELSE 0)

FallbackScore(answerLength, hasKeywords) ==
  (IF answerLength > 50 THEN 30 ELSE 0)
    + (IF answerLength > 100 THEN 20 ELSE 0)
    + (IF hasKeywords THEN 40 ELSE 0)
    + (IF answerLength > 200 THEN 10 ELSE 0)

\* The catch block: userAnswer.trim(), challenge.toLowerCase() and
\* skill?.toLowerCase() throw on a value that is no string.
FallbackEvaluation(context) ==
  LET userAnswer == Get(context, "userAnswer")
      challenge == Get(context, "challenge")
      skill == Get(context, "skill")
  IN
  IF ~IsStr(userAnswer) \/ ~IsStr(challenge) THEN Throw
  ELSE IF ~IsNullish(skill) /\ ~IsStr(skill) THEN Throw
  ELSE LET score == FallbackScore(TextLen(Trim(userAnswer[2])),
                                  checkForKeywords(userAnswer, challenge, skill))
           isCorrect == score >= 70
       IN Return(ObjOf([
            isCorrect |-> Bool(isCorrect),
            score |-> Num(score),
            feedback |-> IF isCorrect
              THEN Text("Good answer! You've demonstrated understanding of the key concepts.")
              ELSE Text("Your answer needs more detail. Try to address the challenge more comprehensively."),
            suggestions |-> Text("Consider providing more specific examples and explaining your reasoning step by step."),
            canProceed |-> Bool(score >= 60)]))

\* ------------------------------------------------------------------------
\* Bounds and the inputs drawn within them.
\* ------------------------------------------------------------------------
MaxSkills == 4
MaxLessons == 3
MaxProse == 2

Functions == {"generateLessons", "generateLessonChallenge", "evaluateAnswer"}

SeqsUpTo(T, n) == UNION {[1..k -> T] : k \in 0..n}

SkillPool ==
  <<Text("Excel"), Text("Budgeting"), Text("Negotiation"), Text("Coaching"),
    Text("Design"), Text("Auditing")>>
SkillLists ==
  {SubSeq(SkillPool, 1, n) :
     n \in 0..(IF MaxSkills < Len(SkillPool) THEN MaxSkills ELSE Len(SkillPool))}

\* The user objects passed to generateLessons: the skills field is a list,
\* missing, or null (a profile restored from storage is used as stored).
LessonContexts ==
  {ObjOf([skills |-> Arr(l), careerAnswers |-> EmptyObj,
          resumeUploaded |-> Bool(FALSE)]) : l \in SkillLists}
    \cup {ObjOf([careerAnswers |-> EmptyObj]),
          ObjOf([skills |-> Null, careerAnswers |-> EmptyObj])}

ChallengeContexts ==
  {ObjOf([lessonTitle |-> Text("Budgeting Basics"), skill |-> Text("Budgeting"),
          industry |-> i]) :
     i \in {EmptyStr, Text("general"), Text("Finance")}}
    \cup {ObjOf([lessonTitle |-> Text("Coaching 101")])}

AnswerTexts ==
  { <<>>,
    <<"          ">>,
    <<"the", " ", "plan">>,
    <<"          ", "(40 letters)", " ", "Problem", " ", "solution", "          ">>,
    <<"(90 letters)", " ", "budget", " ", "forecasting">>,
    <<"(190 letters)", " ", "our", " ", "approach", " ", "design">>,
    <<"(190 letters)", " ", "problem", " ", "solution", "          ">>,
    <<"problem", " ", "solution", "(190 spaces)">> }

EvaluationContexts ==
  {ObjOf([userAnswer |-> Str(a),
          challenge |-> Str(<<"Plan", " ", "the", " ", "Budget", " ", "forecasting">>),
          scenario |-> Text("A quarterly review."),
          lessonTitle |-> Text("Budgeting Basics"),
          skill |-> Text("Budgeting"),
          industry |-> EmptyStr]) : a \in AnswerTexts}
    \cup {ObjOf([userAnswer |-> Str(<<"(90 letters)", " ", "problem">>),
                 challenge |-> Text("analyze"),
                 scenario |-> Text("A quarterly review."),
                 lessonTitle |-> Text("Budgeting Basics")]),
          ObjOf([userAnswer |-> Str(<<"the", " ", "plan">>),
                 scenario |-> Text("A quarterly review."),
                 lessonTitle |-> Text("Budgeting Basics")])}

Contexts(f) ==
  CASE f = "generateLessons" -> LessonContexts
    [] f = "generateLessonChallenge" -> ChallengeContexts
    [] OTHER -> EvaluationContexts

\* The delimiters each orchestrator slices between.
OpenOf(f) == IF f = "generateLessons" THEN "[" ELSE "{"
CloseOf(f) == IF f = "generateLessons" THEN "]" ELSE "}"

\* Text around the payload: prose characters and delimiters of the kind the
\* orchestrator looks for, MaxProse of them in all.
Prose(f) == SeqsUpTo({X, P(OpenOf(f)), P(CloseOf(f))}, MaxProse)
ProsePairs(f) ==
  {ab \in Prose(f) \X Prose(f) : Len(ab[1]) + Len(ab[2]) <= MaxProse}

\* What the completion service may put in the lesson array.
LessonEntries ==
  { ObjOf([title |-> Text("Lesson A"), description |-> Text("About A"),
           relevance |-> Text("Why A"),
           challenges |-> Arr(<<ObjOf([scenario |-> Text("Scene"),
                                       question |-> Text("Task"),
                                       hint |-> Text("Tip")])>>)]),
    ObjOf([title |-> Text("Lesson B"), description |-> Text("About B")]),
    ObjOf([title |-> EmptyStr, description |-> Text("About C"),
           relevance |-> Text("Why C"),
           challenges |-> Arr(<<ObjOf([scenario |-> Text("Scene")]), Num(7)>>)]),
    ObjOf([title |-> Num(5), relevance |-> Text("Why D"),
           challenges |-> Text("none")]),
    ObjOf([title |-> Text("Lesson E"), challenges |-> Arr(<<Null>>)]),
    Null }

ChallengeObjects ==
  { EmptyObj,
    ObjOf([scenario |-> Text("Scene"), challenge |-> Text("Task"),
           hint |-> Text("Tip")]),
    ObjOf([scenario |-> EmptyStr, challenge |-> Num(5)]) }

EvaluationObjects ==
  { EmptyObj,
    ObjOf([isCorrect |-> Bool(TRUE), score |-> Num(85),
           feedback |-> Text("Well argued"), suggestions |-> Text("Add data"),
           canProceed |-> Bool(TRUE)]),
    ObjOf([isCorrect |-> Bool(TRUE), score |-> Num(40), canProceed |-> Bool(TRUE)]),
    ObjOf([isCorrect |-> Text("yes"), score |-> Num(150), feedback |-> Num(1)]),
    ObjOf([score |-> Num(-5), canProceed |-> Null]),
    ObjOf([score |-> Text("high")]),
    ObjOf([score |-> Text("85"), suggestions |-> EmptyStr]) }

\* The JSON value written as the payload, or Undefined for none.
Payloads(f) ==
  {Undefined, Null, Num(5)}
    \cup CASE f = "generateLessons" ->
                {Arr(l) : l \in SeqsUpTo(LessonEntries, MaxLessons)} \cup {EmptyObj}
           [] f = "generateLessonChallenge" -> ChallengeObjects \cup {Arr(<<Num(1)>>)}
           [] OTHER -> EvaluationObjects \cup {Arr(<<Num(1)>>)}

\* The payloads that are also sent wrapped in every prose of Prose(f).
LessonA == CHOOSE e \in LessonEntries : Get(e, "title") = Text("Lesson A")
LessonB == CHOOSE e \in LessonEntries : Get(e, "title") = Text("Lesson B")
WrappedPayloads(f) ==
  {Undefined, Num(5)}
    \cup CASE f = "generateLessons" ->
                {Arr(<<>>), Arr(<<LessonA>>), Arr(<<LessonB, LessonA>>)}
           [] f = "generateLessonChallenge" ->
                {o \in ChallengeObjects : Get(o, "scenario") # EmptyStr}
           [] OTHER ->
                {o \in EvaluationObjects : Get(o, "feedback") \in {Undefined, Text("Well argued")}
                                           /\ Get(o, "score") \in {Undefined, Num(85)}}

PayloadText(payload) == IF payload = Undefined THEN <<>> ELSE Stringify(payload)

\* A reply of the completion service: either a response body of an
\* unexpected shape, or the usual envelope whose first choice carries the
\* text  pre + payload + suf.
Envelope(content) ==
  ObjOf([choices |-> Arr(<<ObjOf([message |-> ObjOf([content |-> content])])>>)])

OddBodies ==
  { Null, EmptyObj, ObjOf([choices |-> Arr(<<>>)]),
    Envelope(Null), Envelope(Num(5)) }

NoReply == [kind |-> "none"]
Replies(f) ==
  {[kind |-> "body", body |-> b] : b \in OddBodies}
    \cup {[kind |-> "text", pre |-> a, payload |-> v, suf |-> a] :
            a \in {<<>>, <<X>>}, v \in Payloads(f)}
    \cup {[kind |-> "text", pre |-> ab[1], payload |-> v, suf |-> ab[2]] :
            ab \in ProsePairs(f), v \in WrappedPayloads(f)}

ReplyText(r) == r.pre \o PayloadText(r.payload) \o r.suf
ReplyBody(r) ==
  IF r.kind = "body" THEN r.body ELSE Envelope(Str(ReplyText(r)))

\* ------------------------------------------------------------------------
\* One invocation of an orchestrator, step by step.
\* ------------------------------------------------------------------------

PromptThrows(f, c) == f = "generateLessons" /\ PromptThrowsLessons(c)

Process(f, c, data) ==
  CASE f = "generateLessons" -> ProcessLessons(c, data)
    [] f = "generateLessonChallenge" -> ProcessChallenge(c, data)
    [] OTHER -> ProcessEvaluation(c, data)

Fallback(f, c) ==
  CASE f = "generateLessons" -> FallbackLessons(c)
    [] f = "generateLessonChallenge" -> FallbackChallenge(c)
    [] OTHER -> FallbackEvaluation(c)

\* catch (err) { ... }: the fallback is computed; the promise resolves to
\* it, or rejects when the catch block itself throws.
Catch(stage) ==
  LET out == Fallback(fn, ctx) IN
  /\ failure' = stage
  /\ fallbacks' = fallbacks + 1
  /\ pc' = IF out.kind = "return" THEN "done" ELSE "rejected"
  /\ result' = out.val

\* ------------------------------------------------------------------------
\* The application around the orchestrators, before anything is rendered.

NoEntries == [k \in {} |-> Undefined]

NoDashboard ==
  [mounted |-> FALSE, mount |-> 0, selectedSkill |-> Null,
   aiLessons |-> <<>>, loading |-> FALSE]

NoLessonPage ==
  [mounted |-> FALSE, mount |-> 0, lesson |-> Null, skill |-> Null,
   completed |-> FALSE, challenges |-> <<>>, currentIndex |-> 0,
   answer |-> EmptyStr, feedback |-> EmptyStr, isEvaluating |-> FALSE,
   evaluationResult |-> Null, attempts |-> 0, showNextButton |-> FALSE]

NothingInFlight == [nodeClicks |-> <<>>, fetches |-> <<>>, evaluations |-> <<>>, timers |-> <<>>]

NoHistory ==
  [generated |-> {},     \* <<kind, key>> of every generation that has ended
   regenerated |-> {},   \* <<kind, key, entries cached>> of every generation
                         \* started for a key that had been generated
   submitted |-> 0, passed |-> {},
   truthyPassed |-> {}, completions |-> NoEntries,
   errors |-> {}]        \* errors that no handler has caught

\* ------------------------------------------------------------------------
\* window.localStorage and the encodings of its entries.  getItem answers
\* null for an entry that is absent.

\* Text whose characters are beyond ASCII but within Latin-1, and text with
\* characters beyond Latin-1.
Latin1Chunks == {"Jos(e9)"}
WideChunks == {"(142)ukasz"}

\* The characters of the text fields of a profile.
TextFields == {"username", "email", "industry", "resumeText"}
TextOf(value) ==
  UNION {{value[k][2][i] : i \in DOMAIN value[k][2]} :
           k \in TextFields \cap DOMAIN value}

\* JSON.stringify(value), which JSON.parse gives back as it was: a profile
\* and a registry hold strings, booleans, numbers, arrays and plain objects.
JSONText(value) == <<"json", value>>

\* btoa(unescape(encodeURIComponent(text)))
EncodeUtf8(text) == <<"base64", "utf-8", text>>

\* btoa(text): one byte per character, which is the UTF-8 encoding for
\* text within ASCII; InvalidCharacterError beyond Latin-1
BtoaThrows(text) == TextOf(text[2]) \cap WideChunks # {}
Btoa(text) ==
  IF TextOf(text[2]) \cap Latin1Chunks = {}
    THEN EncodeUtf8(text) ELSE <<"base64", "latin-1", text>>

\* JSON.parse(decodeURIComponent(escape(atob(stored)))): the bytes are read
\* as UTF-8, which the Latin-1 bytes of a character beyond ASCII are not
DecodeThrows(stored) == stored[2] = "latin-1"
Decode(stored) == stored[3][2]

NoStorage == [user |-> Null, accounts |-> Null]

\* const { loggedIn, ...accountData } = userData
AccountData(userData) == [k \in DOMAIN userData \ {"loggedIn"} |-> userData[k]]

\* { ...a, ...b }
Spread(a, b) == [k \in DOMAIN a \cup DOMAIN b |-> IF k \in DOMAIN b THEN b[k] ELSE a[k]]

\* The null of UserContext; it is kept as a record so that it can be told
\* from a profile.
NoUser == [null |-> TRUE]

\* getAccounts(): the decoded registry, {} when the entry is absent
getAccounts(store) ==
  IF store.accounts = Null THEN NoEntries ELSE Decode(store.accounts)

\* syncAccountRegistry(userData) on the 'accounts' entry: the registry is
\* decoded, the entry of userData.username is merged and the registry is
\* encoded again
syncAccountRegistry(store, userData) ==
  IF "username" \notin DOMAIN userData \/ userData.username[2] = <<>>
    THEN store.accounts
  ELSE IF store.accounts = Null THEN Null
  ELSE LET accounts == Decode(store.accounts)
           name == userData.username[2]
           old == IF name \in DOMAIN accounts THEN accounts[name] ELSE NoEntries
       IN EncodeUtf8(JSONText(
            [k \in DOMAIN accounts \cup {name} |->
               IF k = name THEN Spread(old, AccountData(userData))
                           ELSE accounts[k]]))

\* The body of the updater in setUser: the 'user' entry is removed for
\* null and written for anything else, and the registry is synchronised.
Persisted(store, next) ==
  IF next = NoUser THEN [store EXCEPT !.user = Null]
  ELSE [user |-> EncodeUtf8(JSONText(next)),
        accounts |-> syncAccountRegistry(store, next)]

NoAccountPages ==
  [signIn |-> [error |-> "", loading |-> FALSE],
   createAccount |-> [error |-> ""]]

NothingRendered ==
  /\ userState = NoUser
  /\ location = "/"
  /\ mounts = 0
  /\ skillDashboard = NoDashboard
  /\ lessonPage = NoLessonPage
  /\ inFlight = NothingInFlight
  /\ history = NoHistory
  /\ localStorage = NoStorage
  /\ accountPages = NoAccountPages

Init ==
  /\ NothingRendered
  /\ fn \in Functions
  /\ ctx \in Contexts(fn)
  /\ pc = "idle"
  /\ requests = 0
  /\ fallbacks = 0
  /\ httpOk = TRUE
  /\ reply = NoReply
  /\ failure = "none"
  /\ result = Undefined
  /\ previous = NoPrevious

\* The call: the prompt is built and fetch is called.
Invoke ==
  /\ UNCHANGED sessionVars
  /\ pc = "idle"
  /\ IF PromptThrows(fn, ctx)
       THEN /\ Catch("prompt")
            /\ UNCHANGED requests
       ELSE /\ requests' = requests + 1
            /\ pc' = "awaiting"
            /\ UNCHANGED <<fallbacks, failure, result>>
  /\ UNCHANGED <<fn, ctx, httpOk, reply, previous>>

\* A transport failure answered by issuing the request again.
FetchRejectRetry ==
  /\ UNCHANGED sessionVars
  /\ pc = "awaiting"
  /\ requests' = requests + 1
  /\ UNCHANGED <<fn, ctx, pc, fallbacks, httpOk, reply, failure, result, previous>>

\* fetch rejects (transport failure).
FetchReject ==
  /\ UNCHANGED sessionVars
  /\ pc = "awaiting"
  /\ Catch("network")
  /\ UNCHANGED <<fn, ctx, requests, httpOk, reply, previous>>

\* fetch resolves with a response of any status.
FetchResolve ==
  /\ UNCHANGED sessionVars
  /\ pc = "awaiting"
  /\ pc' = "decoding"
  /\ httpOk' \in BOOLEAN
  /\ UNCHANGED <<fn, ctx, requests, fallbacks, reply, failure, result, previous>>

\* aiResponse.json() rejects: the body is not JSON.
BodyReject ==
  /\ UNCHANGED sessionVars
  /\ pc = "decoding"
  /\ Catch("body")
  /\ UNCHANGED <<fn, ctx, requests, httpOk, reply, previous>>

\* aiResponse.json() resolves; the rest of the try block runs to its
\* return, or throws into the catch block.
BodyResolve ==
  /\ UNCHANGED sessionVars
  /\ pc = "decoding"
  /\ \E r \in Replies(fn) :
       /\ reply' = r
       /\ LET out == Process(fn, ctx, ReplyBody(r)) IN
          IF out.kind = "return"
            THEN /\ pc' = "done"
                 /\ result' = out.val
                 /\ UNCHANGED <<fallbacks, failure>>
            ELSE Catch("content")
  /\ UNCHANGED <<fn, ctx, requests, httpOk, previous>>

Next == Invoke \/ FetchReject \/ FetchResolve \/ BodyReject \/ BodyResolve

Spec == Init /\ [][Next]_vars

\* The caller calls again (the components invoke the orchestrators on every
\* visit): a new invocation starts; an invocation that ended in the catch
\* block with a value is remembered for comparison.
Restart ==
  /\ UNCHANGED sessionVars
  /\ pc \in {"done", "rejected"}
  /\ previous' = IF pc = "done" /\ fallbacks = 1
                   THEN [fn |-> fn, ctx |-> ctx, out |-> result]
                   ELSE previous
  /\ fn' \in Functions
  /\ ctx' \in Contexts(fn')
  /\ pc' = "idle"
  /\ requests' = 0
  /\ fallbacks' = 0
  /\ httpOk' = TRUE
  /\ reply' = NoReply
  /\ failure' = "none"
  /\ result' = Undefined

\* Repeated invocations while the completion service cannot be reached or
\* answers with a body that is not JSON.
NextFailing == Invoke \/ FetchReject \/ FetchResolve \/ BodyReject \/ Restart

SpecFailing == Init /\ [][NextFailing]_vars

\* ------------------------------------------------------------------------
\* The pages around the orchestrators: SkillDashboard and LessonPage over
\* the profile kept by UserContext.  A remote call made by a page is one
\* step here: it ends in one of the outcomes the orchestrator can produce.
\* A continuation that runs after an await or a timer belongs to the
\* component instance that started it: its state setters do nothing once
\* that instance is unmounted, while setUser of the context always applies.
\* ------------------------------------------------------------------------
MaxMounts == 3
MaxInFlight == 1
MaxSubmissions == 3

\* const challengeCount = 3
challengeCount == 3

\* A sanitizer that escapes the entities of an earlier pass once more.
SanitizeChunkAgain(c) ==
  CASE c = "&" -> "&amp;"
    [] c = "&amp;" -> "&amp;amp;"
    [] c = "<" -> "&lt;"
    [] OTHER -> c

\* DOMPurify.sanitize on text: markup characters leave as entities, and
\* the entities of an earlier pass stay as they are.
SanitizeChunk(c) ==
  CASE c = "&" -> "&amp;"
    [] c = "<" -> "&lt;"
    [] OTHER -> c

\* DOMPurify.sanitize(v || "")
Sanitize(v) ==
  IF ~Truthy(v) THEN EmptyStr
  ELSE Str([i \in 1..Len(Interp(v)) |-> SanitizeChunk(Interp(v)[i])])

\* { ...entries, [key]: v }
Put(entries, key, v) ==
  [k \in DOMAIN entries \cup {key} |-> IF k = key THEN v ELSE entries[k]]

\* { ...o, title: sanitize(o.title), description: sanitize(o.description) }
SanitizeLesson(l) ==
  Obj(Put(Put(l[2], <<"title">>, Sanitize(Get(l, "title"))),
          <<"description">>, Sanitize(Get(l, "description"))))

SanitizeLessons(lessons) ==
  [i \in 1..Len(lessons) |-> SanitizeLesson(lessons[i])]

\* The object pushed for one generated challenge.
SanitizeChallenge(aiData) ==
  ObjOf([scenario |-> Sanitize(Get(aiData, "scenario")),
         challenge |-> Sanitize(Get(aiData, "challenge")),
         hint |-> Sanitize(Get(aiData, "hint"))])

FailedChallenge ==
  ObjOf([scenario |-> Text("Failed to generate scenario."),
         challenge |-> Text("Try again later."),
         hint |-> Text("Please refresh the page and try again.")])

\* What the completion service answers during a session, when it answers
\* with a completion that can be read: an empty list of lessons, and three
\* evaluations.  Requests for lessons and challenges also end in the catch
\* block, which yields the lesson and the challenge of the fallback.
SessionPayloads(f) ==
  CASE f = "generateLessons" -> {Arr(<<>>)}
    [] f = "generateLessonChallenge" -> {}
    [] OTHER ->
         {EmptyObj,
          ObjOf([isCorrect |-> Bool(TRUE), score |-> Num(85),
                 feedback |-> Text("Well argued."), canProceed |-> Bool(TRUE)]),
          ObjOf([isCorrect |-> Bool(FALSE), score |-> Num(40),
                 feedback |-> Text("Too thin."), canProceed |-> Text("false")])}

SessionReplies(f) ==
  {[kind |-> "body", body |-> b] : b \in OddBodies}
    \cup {[kind |-> "text", pre |-> <<>>, payload |-> v, suf |-> <<>>] :
            v \in SessionPayloads(f)}

\* The ways a call of orchestrator f with argument c can end: by its catch
\* block, or by its try block on one of the replies.
Outcomes(f, c) ==
  LET caught == Fallback(f, c) IN
  IF PromptThrows(f, c) THEN {caught}
  ELSE {caught}
         \cup {LET out == Process(f, c, ReplyBody(r)) IN
               IF out.kind = "return" THEN out ELSE caught :
                 r \in SessionReplies(f)}

\* The skill nodes shown by the dashboard and the answers typed.  The
\* outcome of the fallback evaluation of the long answer does not depend on
\* the words of the challenge: it carries two of the generic terms.
SessionSkills == {Text("Excel"), Str(<<"R", "&", "D">>)}

SessionAnswers ==
  { <<" ">>,
    <<"(190 letters)", " ", "our", " ", "approach", " ", "design">> }

Remove(s, i) == SubSeq(s, 1, i - 1) \o SubSeq(s, i + 1, Len(s))

Within(flights) ==
  /\ Len(flights.nodeClicks) <= MaxInFlight
  /\ Len(flights.fetches) <= MaxInFlight
  /\ Len(flights.evaluations) <= MaxInFlight
  /\ Len(flights.timers) <= MaxInFlight

FreshDashboard(id) ==
  [mounted |-> TRUE, mount |-> id, selectedSkill |-> Null,
   aiLessons |-> <<>>, loading |-> FALSE]

FreshLessonPage(id, lesson, skill) ==
  [mounted |-> TRUE, mount |-> id, lesson |-> lesson, skill |-> skill,
   completed |-> FALSE, challenges |-> <<>>, currentIndex |-> 0,
   answer |-> EmptyStr, feedback |-> EmptyStr, isEvaluating |-> FALSE,
   evaluationResult |-> Null, attempts |-> 0, showNextButton |-> FALSE]

TitleOf(lesson) == Get(lesson, "title")[2]

\* The number of challenges saved for the lesson.
SavedChallenges(user, lesson) ==
  IF TitleOf(lesson) \in DOMAIN user.savedLessons
    THEN Len(user.savedLessons[TitleOf(lesson)].challenges)
    ELSE 0

\* The test of the effect asking for more challenges than are ever saved.
HasMoreSavedChallenges(user, lesson) ==
  SavedChallenges(user, lesson) > challengeCount

\* savedChallenges && savedChallenges.length > 0
HasSavedChallenges(user, lesson) ==
  SavedChallenges(user, lesson) > 0

\* The challenge generation effect of LessonPage, run after the page
\* rendered with a lesson, skill or user it had not rendered with before:
\* the saved challenges are shown, or fetchChallenges starts.
GenerationEffect(user, page, flights, hist) ==
  IF ~page.mounted
    THEN [page |-> page, inFlight |-> flights, history |-> hist]
  ELSE IF HasSavedChallenges(user, page.lesson)
    THEN [page |-> [page EXCEPT !.challenges =
                      user.savedLessons[TitleOf(page.lesson)].challenges],
          inFlight |-> flights, history |-> hist]
  ELSE [page |-> page,
        inFlight |-> [flights EXCEPT !.fetches =
                        Append(@, [mount |-> page.mount, lesson |-> page.lesson,
                                   skill |-> page.skill, generated |-> <<>>])],
        history |-> [hist EXCEPT !.regenerated =
                       @ \cup (IF <<"lesson", TitleOf(page.lesson)>> \in hist.generated
                                 THEN {<<"lesson", TitleOf(page.lesson),
                                         SavedChallenges(user, page.lesson)>>}
                                 ELSE {})]]

\* The render that follows the state changes of a handler: the effect
\* runs when the profile is another object than before (fresh).
Rendered(user, fresh, page, flights, hist) ==
  LET next == IF ~fresh
                THEN [page |-> page, inFlight |-> flights, history |-> hist]
                ELSE GenerationEffect(user, page, flights, hist)
  IN /\ Within(next.inFlight)
     /\ userState' = user
     /\ localStorage' = IF fresh THEN Persisted(localStorage, user) ELSE localStorage
     /\ lessonPage' = next.page
     /\ inFlight' = next.inFlight
     /\ history' = next.history

\* setUser with an updater that reads a property of prev while the user is
\* null: the TypeError is thrown where React runs the updater, outside the
\* try block of the caller, and the user is left as it was.
UpdaterThrows(page, flights, hist) ==
  /\ lessonPage' = page
  /\ inFlight' = flights
  /\ history' = [hist EXCEPT !.errors = @ \cup {"TypeError"}]
  /\ UNCHANGED <<userState, localStorage>>

\* The argument of generateLessons in handleNodeClick, for a profile without
\* career answers and resume.
LessonsContext(skill) ==
  ObjOf([skills |-> Arr(<<skill>>),
         careerAnswers |-> EmptyObj,
         resumeSkills |-> Arr(<<>>),
         resumeUploaded |-> Bool(FALSE)])

\* The argument of generateLessonChallenge in fetchChallenges, for a
\* profile without industry.
ChallengeContext(lesson, skill) ==
  ObjOf([lessonTitle |-> Get(lesson, "title"),
         skill |-> skill,
         industry |-> EmptyStr])

\* SkillDashboard.handleNodeClick up to its await.
handleNodeClick ==
  /\ skillDashboard.mounted
  /\ \E skill \in SessionSkills :
       IF /\ skill[2] \in DOMAIN userState.skillLessons
          /\ Len(userState.skillLessons[skill[2]]) > 0
         THEN /\ skillDashboard' =
                   [skillDashboard EXCEPT
                      !.selectedSkill = skill,
                      !.aiLessons = SanitizeLessons(userState.skillLessons[skill[2]])]
              /\ UNCHANGED <<inFlight, history>>
         ELSE /\ Len(inFlight.nodeClicks) < MaxInFlight
              /\ skillDashboard' =
                   [skillDashboard EXCEPT !.selectedSkill = skill, !.loading = TRUE]
              /\ inFlight' =
                   [inFlight EXCEPT !.nodeClicks =
                      Append(@, [mount |-> skillDashboard.mount, skill |-> skill])]
              /\ history' =
                   [history EXCEPT !.regenerated =
                      @ \cup (IF <<"skill", skill[2]>> \in history.generated
                                THEN {<<"skill", skill[2],
                                        Len(userState.skillLessons[skill[2]])>>}
                                ELSE {})]
  /\ UNCHANGED <<userState, localStorage, location, mounts, lessonPage, accountPages, callVars>>

\* SkillDashboard.handleNodeClick from the await on.
LessonsGenerated ==
  /\ \E i \in 1..Len(inFlight.nodeClicks) :
       LET call == inFlight.nodeClicks[i]
           here == skillDashboard.mounted /\ skillDashboard.mount = call.mount
           rest == [inFlight EXCEPT !.nodeClicks = Remove(@, i)]
           context == LessonsContext(call.skill)
       IN \E out \in Outcomes("generateLessons", context) :
            IF out.kind = "return"
              THEN LET sanitizedLessons == IF IsArr(out.val)
                                             THEN SanitizeLessons(out.val[2])
                                             ELSE <<>>
                   IN /\ skillDashboard' =
                           IF here
                             THEN [skillDashboard EXCEPT
                                     !.aiLessons = sanitizedLessons,
                                     !.loading = FALSE]
                             ELSE skillDashboard
                      /\ IF userState = NoUser
                           THEN UpdaterThrows(lessonPage, rest,
                                  [history EXCEPT !.generated =
                                     @ \cup {<<"skill", call.skill[2]>>}])
                           ELSE Rendered([userState EXCEPT !.skillLessons =
                                     Put(@, call.skill[2], sanitizedLessons)],
                                  TRUE, lessonPage, rest,
                                  [history EXCEPT !.generated =
                                     @ \cup {<<"skill", call.skill[2]>>}])
              ELSE /\ skillDashboard' =
                        IF here
                          THEN [skillDashboard EXCEPT
                                  !.aiLessons = <<>>, !.loading = FALSE]
                          ELSE skillDashboard
                   /\ inFlight' = rest
                   /\ UNCHANGED <<userState, localStorage, lessonPage, history>>
  /\ UNCHANGED <<location, mounts, accountPages, callVars>>

\* navigate("/lesson/...", { state: { lesson, skill } }): LessonPage mounts,
\* the dashboard unmounts, and the effects of the new page run.
OpenLesson(lesson, skill) ==
  /\ mounts < MaxMounts
  /\ mounts' = mounts + 1
  /\ location' = "/lesson/:title"
  /\ skillDashboard' = NoDashboard
  /\ LET next == GenerationEffect(userState,
                                  FreshLessonPage(mounts + 1, lesson, skill),
                                  inFlight,
                                  [history EXCEPT !.passed = {}, !.truthyPassed = {}])
     IN /\ Within(next.inFlight)
        /\ lessonPage' = next.page
        /\ inFlight' = next.inFlight
        /\ history' = next.history
  /\ UNCHANGED <<userState, localStorage, accountPages, callVars>>

\* SkillDashboard.handleLessonClick on an entry of the lessons panel.
handleLessonClick ==
  /\ skillDashboard.mounted
  /\ skillDashboard.selectedSkill # Null
  /\ ~skillDashboard.loading
  /\ \E i \in 1..Len(skillDashboard.aiLessons) :
       OpenLesson(skillDashboard.aiLessons[i], skillDashboard.selectedSkill)

\* A click on an entry of the Previous Lessons panel.
OpenSavedLesson ==
  /\ skillDashboard.mounted
  /\ \E title \in DOMAIN userState.savedLessons :
       OpenLesson(userState.savedLessons[title].lesson,
                  userState.savedLessons[title].skill)

\* Leaving the lesson for the dashboard: the Back button, or the timer
\* that completeLesson starts.
LeaveLesson ==
  /\ lessonPage.mounted
  /\ mounts < MaxMounts
  /\ mounts' = mounts + 1
  /\ location' = "/skills-dashboard"
  /\ lessonPage' = NoLessonPage
  /\ skillDashboard' = FreshDashboard(mounts + 1)
  /\ UNCHANGED <<userState, localStorage, inFlight, history, accountPages, callVars>>

\* fetchChallenges from one await of generateLessonChallenge to the next,
\* and from the last one to its end.
ChallengeGenerated ==
  /\ \E i \in 1..Len(inFlight.fetches) :
       LET call == inFlight.fetches[i]
           here == lessonPage.mounted /\ lessonPage.mount = call.mount
           rest == [inFlight EXCEPT !.fetches = Remove(@, i)]
           context == ChallengeContext(call.lesson, call.skill)
       IN \E out \in Outcomes("generateLessonChallenge", context) :
            IF out.kind = "throw"
              THEN /\ lessonPage' =
                        IF here
                          THEN [lessonPage EXCEPT !.challenges = <<FailedChallenge>>]
                          ELSE lessonPage
                   /\ inFlight' = rest
                   /\ UNCHANGED <<userState, localStorage, history>>
              ELSE LET generatedChallenges ==
                         Append(call.generated, SanitizeChallenge(out.val))
                   IN IF Len(generatedChallenges) < challengeCount
                        THEN /\ inFlight' =
                                  [inFlight EXCEPT !.fetches[i].generated =
                                     generatedChallenges]
                             /\ UNCHANGED <<userState, localStorage, lessonPage, history>>
                        ELSE IF userState = NoUser
                          THEN UpdaterThrows(lessonPage, rest,
                                 [history EXCEPT !.generated =
                                    @ \cup {<<"lesson", TitleOf(call.lesson)>>}])
                        ELSE Rendered(
                               [userState EXCEPT !.savedLessons =
                                  Put(@, Sanitize(Get(call.lesson, "title"))[2],
                                      [lesson |-> call.lesson,
                                       skill |-> call.skill,
                                       challenges |-> generatedChallenges])],
                               TRUE,
                               IF here
                                 THEN [lessonPage EXCEPT
                                         !.challenges = generatedChallenges]
                                 ELSE lessonPage,
                               rest,
                               [history EXCEPT !.generated =
                                  @ \cup {<<"lesson", TitleOf(call.lesson)>>}])
  /\ UNCHANGED <<location, mounts, skillDashboard, accountPages, callVars>>

\* onChange of the answer input.
AnswerChanged ==
  /\ lessonPage.mounted
  /\ ~lessonPage.completed
  /\ \E text \in SessionAnswers :
       lessonPage' = [lessonPage EXCEPT !.answer = Sanitize(Str(text)),
                                        !.showNextButton = FALSE]
  /\ UNCHANGED <<userState, localStorage, location, mounts, skillDashboard, inFlight,
                 history, accountPages, callVars>>

\* challenges[currentIndex] || {}
CurrentChallenge(page) ==
  IF page.currentIndex < Len(page.challenges)
    THEN page.challenges[page.currentIndex + 1]
    ELSE EmptyObj

\* onClick of Need Hint.
NeedHint ==
  /\ lessonPage.mounted
  /\ ~lessonPage.completed
  /\ ~lessonPage.showNextButton
  /\ lessonPage' =
       [lessonPage EXCEPT !.feedback =
          Str(<<"Hint: ">> \o Interp(Get(CurrentChallenge(lessonPage), "hint")))]
  /\ UNCHANGED <<userState, localStorage, location, mounts, skillDashboard, inFlight,
                 history, accountPages, callVars>>

\* !answer.trim()
Blank(answer) == Trim(answer[2]) = <<>>

\* The Submit button without isEvaluating in its disabled attribute.
SubmitEnabledWhileEvaluating(page) ==
  /\ page.mounted
  /\ ~page.completed
  /\ ~page.showNextButton
  /\ ~Blank(page.answer)

\* disabled={isEvaluating || !answer.trim()} of the Submit button, which is
\* rendered while the lesson is open and the Next button is not shown.
SubmitEnabled(page) ==
  /\ page.mounted
  /\ ~page.completed
  /\ ~page.showNextButton
  /\ ~(page.isEvaluating \/ Blank(page.answer))

\* A click on Submit: handleCompleteChallenge up to its await.  Reading
\* challenge of challenges[currentIndex] throws while no challenge is
\* there yet, which the catch and finally blocks of the handler take up.
handleCompleteChallenge ==
  /\ SubmitEnabled(lessonPage)
  /\ IF Blank(lessonPage.answer)
       THEN /\ lessonPage' =
                 [lessonPage EXCEPT !.feedback =
                    Text("Please enter an answer before completing the challenge!")]
            /\ UNCHANGED <<inFlight, history>>
       ELSE /\ history.submitted < MaxSubmissions
            /\ history' = [history EXCEPT !.submitted = @ + 1]
            /\ IF lessonPage.currentIndex >= Len(lessonPage.challenges)
                 THEN /\ lessonPage' =
                           [lessonPage EXCEPT
                              !.attempts = @ + 1,
                              !.feedback = Text("Unable to evaluate your answer. Please try again."),
                              !.isEvaluating = FALSE]
                      /\ UNCHANGED inFlight
                 ELSE /\ Len(inFlight.evaluations) < MaxSubmissions
                      /\ lessonPage' =
                           [lessonPage EXCEPT
                              !.attempts = @ + 1,
                              !.feedback = Text("Evaluating your answer..."),
                              !.isEvaluating = TRUE]
                      /\ inFlight' =
                           [inFlight EXCEPT !.evaluations =
                              Append(@,
                                [mount |-> lessonPage.mount,
                                 index |-> lessonPage.currentIndex,
                                 attempts |-> lessonPage.attempts,
                                 lesson |-> lessonPage.lesson,
                                 skill |-> lessonPage.skill,
                                 context |->
                                   ObjOf([userAnswer |-> lessonPage.answer,
                                          challenge |-> Get(CurrentChallenge(lessonPage), "challenge"),
                                          scenario |-> Get(CurrentChallenge(lessonPage), "scenario"),
                                          lessonTitle |-> Get(lessonPage.lesson, "title"),
                                          skill |-> lessonPage.skill,
                                          industry |-> EmptyStr])])]
  /\ UNCHANGED <<userState, localStorage, location, mounts, skillDashboard, accountPages, callVars>>

\* prev.completedLessons?.[safeSkill]?.[title]?.level || 0
LevelOf(user, safeSkill, title) ==
  IF /\ safeSkill \in DOMAIN user.completedLessons
     /\ title \in DOMAIN user.completedLessons[safeSkill]
    THEN user.completedLessons[safeSkill][title].level
    ELSE 0

\* The updater of updateUserProgress, with the skill, lesson and attempts
\* of the render in which the answer was submitted.
updateUserProgress(prev, skill, lesson, attempts) ==
  LET safeSkill == Sanitize(skill)[2]
      existing == IF safeSkill \in DOMAIN prev.completedLessons
                    THEN prev.completedLessons[safeSkill]
                    ELSE NoEntries
      currentLevel == LevelOf(prev, safeSkill, TitleOf(lesson))
  IN [prev EXCEPT !.completedLessons =
        Put(@, safeSkill,
            Put(existing, TitleOf(lesson),
                [level |-> currentLevel + 1, attempts |-> attempts + 1]))]

\* handleCompleteChallenge from the await on.
EvaluationReturned ==
  /\ \E i \in 1..Len(inFlight.evaluations) :
       LET call == inFlight.evaluations[i]
           here == lessonPage.mounted /\ lessonPage.mount = call.mount
           rest == [inFlight EXCEPT !.evaluations = Remove(@, i)]
       IN \E out \in Outcomes("evaluateAnswer", call.context) :
            IF out.kind = "throw"
              THEN /\ lessonPage' =
                        IF here
                          THEN [lessonPage EXCEPT
                                  !.feedback = Text("Unable to evaluate your answer. Please try again."),
                                  !.isEvaluating = FALSE]
                          ELSE lessonPage
                   /\ inFlight' = rest
                   /\ UNCHANGED <<userState, localStorage, history>>
            ELSE LET evaluation == out.val IN
              IF Truthy(Get(evaluation, "canProceed")) /\ userState = NoUser
                THEN UpdaterThrows(lessonPage, rest, history)
              ELSE IF Truthy(Get(evaluation, "canProceed"))
                THEN Rendered(
                       updateUserProgress(userState, call.skill, call.lesson,
                                          call.attempts),
                       TRUE,
                       IF here
                         THEN [lessonPage EXCEPT
                                 !.evaluationResult = evaluation,
                                 !.feedback = Str(Interp(Get(evaluation, "feedback"))),
                                 !.showNextButton = TRUE,
                                 !.isEvaluating = FALSE]
                         ELSE lessonPage,
                       rest,
                       IF here
                         THEN [history EXCEPT
                                 !.truthyPassed = @ \cup {call.index},
                                 !.passed = @ \cup
                                    (IF Get(evaluation, "canProceed") = Bool(TRUE)
                                       THEN {call.index} ELSE {})]
                         ELSE history)
                ELSE /\ lessonPage' =
                          IF here
                            THEN [lessonPage EXCEPT
                                    !.evaluationResult = evaluation,
                                    !.feedback =
                                       Str(Interp(Get(evaluation, "feedback"))
                                             \o (IF call.attempts > 1
                                                   THEN <<" (Attempt ", ToString(call.attempts), ")">>
                                                   ELSE <<>>)),
                                    !.showNextButton = FALSE,
                                    !.isEvaluating = FALSE]
                            ELSE lessonPage
                     /\ inFlight' =
                          IF Truthy(Get(evaluation, "suggestions"))
                            THEN [rest EXCEPT !.timers =
                                    Append(@, [mount |-> call.mount,
                                               suggestions |-> Get(evaluation, "suggestions")])]
                            ELSE rest
                     /\ Within(inFlight')
                     /\ UNCHANGED <<userState, localStorage, history>>
  /\ UNCHANGED <<location, mounts, skillDashboard, accountPages, callVars>>

\* The timer that appends the suggestions to the feedback.
SuggestionsShown ==
  /\ \E i \in 1..Len(inFlight.timers) :
       LET timer == inFlight.timers[i] IN
       /\ inFlight' = [inFlight EXCEPT !.timers = Remove(@, i)]
       /\ lessonPage' =
            IF lessonPage.mounted /\ lessonPage.mount = timer.mount
              THEN [lessonPage EXCEPT !.feedback =
                      Str(@[2] \o <<"Suggestions: ">> \o Interp(timer.suggestions))]
              ELSE lessonPage
  /\ UNCHANGED <<userState, localStorage, location, mounts, skillDashboard, history, accountPages, callVars>>

\* The entry of history.completions for the lesson of the page: how often
\* completeLesson has run for the lesson, under the names by which
\* completedLessons holds its level.
CompletionKey(page) == <<Sanitize(page.skill)[2], TitleOf(page.lesson)>>

CompletionsOf(hist, key) ==
  IF key \in DOMAIN hist.completions THEN hist.completions[key] ELSE 0

\* handleSignOut of SkillDashboard: what is in flight stays in flight.
dashboardSignOut ==
  /\ skillDashboard.mounted
  /\ userState' = NoUser
  /\ localStorage' = [Persisted(localStorage, NoUser) EXCEPT !.user = Null]
  /\ location' = "/"
  /\ skillDashboard' = NoDashboard
  /\ UNCHANGED <<mounts, lessonPage, inFlight, history, accountPages, callVars>>

\* The updater of completeLesson without its test of currentSkills.
AwardSkillAgain(prev, skill) ==
  [prev EXCEPT !.skills = Append(@, Sanitize(skill))]

\* The updater of completeLesson.
AwardSkill(prev, skill) ==
  IF \E j \in 1..Len(prev.skills) : prev.skills[j] = Sanitize(skill)
    THEN prev
    ELSE [prev EXCEPT !.skills = Append(@, Sanitize(skill))]

\* onClick of the Next button: advanceToNextChallenge, which ends in
\* completeLesson after the last challenge.
advanceToNextChallenge ==
  /\ lessonPage.mounted
  /\ ~lessonPage.completed
  /\ lessonPage.showNextButton
  /\ IF lessonPage.currentIndex + 1 < Len(lessonPage.challenges)
       THEN /\ lessonPage' =
                 [lessonPage EXCEPT
                    !.currentIndex = @ + 1,
                    !.answer = EmptyStr,
                    !.feedback = EmptyStr,
                    !.evaluationResult = Null,
                    !.attempts = 0,
                    !.showNextButton = FALSE]
            /\ UNCHANGED <<userState, localStorage, inFlight, history>>
       ELSE Rendered(
              AwardSkill(userState, lessonPage.skill),
              AwardSkill(userState, lessonPage.skill) # userState,
              [lessonPage EXCEPT !.completed = TRUE],
              inFlight,
              [history EXCEPT !.completions =
                 Put(@, CompletionKey(lessonPage),
                     CompletionsOf(history, CompletionKey(lessonPage)) + 1)])
  /\ UNCHANGED <<location, mounts, skillDashboard, accountPages, callVars>>

\* The profiles a session starts with: a learner who has not used the
\* dashboard yet, and one who has two skills, clicked Excel and opened
\* its lesson in an earlier session, while the completion service was out
\* of reach, and left the lesson without answering.
NewLearner ==
  [skills |-> <<>>, completedLessons |-> NoEntries,
   savedLessons |-> NoEntries, skillLessons |-> NoEntries]

ReturningLearner ==
  LET skill == Text("Excel")
      lessons == SanitizeLessons(
                   Fallback("generateLessons", LessonsContext(skill)).val[2])
      challenge == SanitizeChallenge(
                     Fallback("generateLessonChallenge",
                              ChallengeContext(lessons[1], skill)).val)
  IN [skills |-> <<skill, Text("Budgeting")>>,
      completedLessons |-> NoEntries,
      savedLessons |->
        Put(NoEntries, TitleOf(lessons[1]),
            [lesson |-> lessons[1], skill |-> skill,
             challenges |-> [i \in 1..challengeCount |-> challenge]]),
      skillLessons |-> Put(NoEntries, skill[2], lessons)]

\* What had been generated before the session began.
GeneratedFor(user) ==
  {<<"skill", k>> : k \in DOMAIN user.skillLessons}
    \cup {<<"lesson", t>> : t \in DOMAIN user.savedLessons}

\* A signed-in learner on the skills dashboard.
InitSession ==
  /\ fn = "evaluateAnswer"
  /\ ctx = EmptyObj
  /\ pc = "idle"
  /\ requests = 0
  /\ fallbacks = 0
  /\ httpOk = TRUE
  /\ reply = NoReply
  /\ failure = "none"
  /\ result = Undefined
  /\ previous = NoPrevious
  /\ userState \in {NewLearner, ReturningLearner}
  /\ location = "/skills-dashboard"
  /\ mounts = 1
  /\ skillDashboard = FreshDashboard(1)
  /\ lessonPage = NoLessonPage
  /\ inFlight = NothingInFlight
  /\ history = [NoHistory EXCEPT !.generated = GeneratedFor(userState)]
  /\ localStorage = Persisted(NoStorage, userState)
  /\ accountPages = NoAccountPages

NextSession ==
  \/ handleNodeClick
  \/ LessonsGenerated
  \/ handleLessonClick
  \/ OpenSavedLesson
  \/ LeaveLesson
  \/ ChallengeGenerated
  \/ AnswerChanged
  \/ NeedHint
  \/ handleCompleteChallenge
  \/ EvaluationReturned
  \/ SuggestionsShown
  \/ advanceToNextChallenge
  \/ dashboardSignOut

SpecSession == InitSession /\ [][NextSession]_vars

\* A lesson page alone, from the moment the returning learner has opened a
\* lesson from the lessons panel: the lesson of Excel, whose challenges are
\* saved, or the lesson of R&D, which is new.  Every remote call that the
\* page has made comes to an end: the orchestrators settle each call, by
\* the completion or by the fallback.  The fairness of EvaluationReturned
\* is written out, with the test for a pending evaluation in the place of
\* ENABLED: the step is possible exactly when an evaluation is in flight.
InitLesson ==
  /\ fn = "evaluateAnswer"
  /\ ctx = EmptyObj
  /\ pc = "idle"
  /\ requests = 0
  /\ fallbacks = 0
  /\ httpOk = TRUE
  /\ reply = NoReply
  /\ failure = "none"
  /\ result = Undefined
  /\ previous = NoPrevious
  /\ location = "/lesson/:title"
  /\ mounts = 2
  /\ skillDashboard = NoDashboard
  /\ \E skill \in SessionSkills :
       LET lessons == SanitizeLessons(
                        Fallback("generateLessons", LessonsContext(skill)).val[2])
           user == [ReturningLearner EXCEPT
                      !.skillLessons = Put(@, skill[2], lessons)]
           next == GenerationEffect(
                     user, FreshLessonPage(2, lessons[1], skill), NothingInFlight,
                     [NoHistory EXCEPT !.generated = GeneratedFor(user)])
       IN /\ userState = user
          /\ lessonPage = next.page
          /\ inFlight = next.inFlight
          /\ history = next.history
  /\ localStorage = Persisted(NoStorage, userState)
  /\ accountPages = NoAccountPages

NextLesson ==
  \/ LeaveLesson
  \/ ChallengeGenerated
  \/ AnswerChanged
  \/ NeedHint
  \/ handleCompleteChallenge
  \/ EvaluationReturned
  \/ SuggestionsShown
  \/ advanceToNextChallenge

SpecLesson ==
  /\ InitLesson
  /\ [][NextLesson]_vars
  /\ WF_vars(ChallengeGenerated)
  /\ ([]<>(inFlight.evaluations = <<>>) \/ []<><<EvaluationReturned>>_vars)

\* ------------------------------------------------------------------------
\* Accounts: CreateAccount, SignIn, Career, Upload and Profile over the
\* profile of UserContext and the two entries of localStorage, behind the
\* routes of App.  A form field holds what was typed, sanitized on every
\* change; a handler is given the field contents with its click.
\* ------------------------------------------------------------------------
MaxAccounts == 2
MaxOperations == 4

\* const sanitize = (value) => DOMPurify.sanitize(value.trim())
sanitize(chunks) == Sanitize(Str(Trim(chunks)))

TypedNames == {<<"ana">>, <<"Jos(e9)">>, <<" ">>}
TypedPasswords == {<<"pw1">>, <<"pw2">>}

\* What is typed into the form of CreateAccount: two people with a password
\* each, and a form that is left empty.
Registrations ==
  {[username |-> <<"ana">>, email |-> <<"ana", "@", "x.org">>, password |-> <<"pw1">>],
   [username |-> <<"Jos(e9)">>, email |-> <<"jose", "@", "x.org">>, password |-> <<"pw2">>],
   [username |-> <<" ">>, email |-> <<>>, password |-> <<>>]}

PublicRoutes == {"/", "/signin", "/create-account", "/upload", "/career"}
ProtectedRoutes == {"/dashboard", "/profile"}

\* { ...user } of a user that may be null
Own(user) == IF user = NoUser THEN NoEntries ELSE user

\* ProtectedRoute: the page for a user that is truthy, the sign-in page
\* otherwise.  Career sends a visitor without user to the landing page.
Routed(route, user) ==
  CASE route \in ProtectedRoutes /\ user = NoUser -> "/signin"
    [] route = "/career" /\ user = NoUser -> "/"
    [] OTHER -> route

\* A component that is left is unmounted: the timers it started stay, and
\* the state setters of their callbacks do nothing any more.
Unmounted(flights) ==
  [flights EXCEPT !.timers = [i \in DOMAIN @ |-> [@[i] EXCEPT !.mounted = FALSE]]]

NoAttempt == [username |-> EmptyStr, existed |-> FALSE, matched |-> FALSE]

AccountHistory ==
  [last |-> "load",        \* the handler that ran last
   origin |-> "none",      \* how the user of the session came to be
   account |-> <<>>,       \* the registry key the session was started for
   attempt |-> NoAttempt,  \* what the last sign-in or creation found
   signedOut |-> NoUser,   \* the profile at a sign-out that nothing has followed
   operations |-> 0]       \* handlers that have changed the profile or the store

\* One more handler has changed the profile or the store.
Operated(hist, handler) ==
  [hist EXCEPT !.last = handler, !.operations = @ + 1, !.signedOut = NoUser]

\* The user follows a link or the browser history to a route.
Visit(route) ==
  /\ location # route
  /\ location' = Routed(route, userState)
  /\ accountPages' = NoAccountPages
  /\ inFlight' = Unmounted(inFlight)
  /\ history' = [history EXCEPT !.last = "visit"]
  /\ UNCHANGED <<userState, localStorage, mounts, skillDashboard, lessonPage, callVars>>

\* saveAccount(username, accountData)
saveAccount(store, name, accountData) ==
  [store EXCEPT !.accounts =
     EncodeUtf8(JSONText(
       [k \in DOMAIN getAccounts(store) \cup {name} |->
          IF k = name THEN accountData ELSE getAccounts(store)[k]]))]

\* handleSubmit of CreateAccount without its test of accounts[safeUsername].
ExistsNever(accounts, name) == FALSE

\* accounts[safeUsername]
Exists(accounts, name) == name \in DOMAIN accounts

\* accountData of handleSubmit: the sanitized fields of the form, the
\* encoded password and the defaults of a new profile.
NewAccount(form) ==
  [username |-> sanitize(form.username[2]), email |-> sanitize(form.email[2]),
   passwordHash |-> EncodeUtf8(form.password),
   resumeUploaded |-> Bool(FALSE), resumeSkills |-> <<>>,
   careerAnswers |-> NoEntries, lessons |-> <<>>, skills |-> <<>>,
   completedLessons |-> NoEntries, savedLessons |-> NoEntries,
   availableSkills |-> <<>>, skillLessons |-> NoEntries]

\* onSubmit of the form of CreateAccount.
handleSubmit(typed) ==
  LET form == [username |-> sanitize(typed.username), email |-> sanitize(typed.email),
               password |-> sanitize(typed.password)]
      safeUsername == sanitize(form.username[2])
      accounts == getAccounts(localStorage)
      existed == Exists(accounts, safeUsername[2])
      accountData == NewAccount(form)
      newUser == Spread(accountData, [loggedIn |-> Bool(TRUE)])
  IN /\ location = "/create-account"
     /\ IF ~Truthy(form.username) \/ ~Truthy(form.email) \/ ~Truthy(form.password)
          THEN /\ accountPages' = [accountPages EXCEPT !.createAccount.error =
                                     "All fields are required."]
               /\ history' = [history EXCEPT !.last = "createRejected", !.attempt = NoAttempt]
               /\ UNCHANGED <<userState, localStorage, location>>
        ELSE IF existed
          THEN /\ accountPages' = [accountPages EXCEPT !.createAccount.error =
                                     "Username already exists. Please choose a different username."]
               /\ history' = [history EXCEPT !.last = "createRejected",
                                !.attempt = [username |-> safeUsername,
                                             existed |-> TRUE, matched |-> FALSE]]
               /\ UNCHANGED <<userState, localStorage, location>>
          ELSE /\ Cardinality(DOMAIN accounts \cup {safeUsername[2]}) <= MaxAccounts
               /\ history.operations < MaxOperations
               /\ userState' = newUser
               /\ localStorage' = Persisted(saveAccount(localStorage, safeUsername[2],
                                                        accountData), newUser)
               /\ location' = "/career"
               /\ accountPages' = NoAccountPages
               /\ history' = [Operated(history, "create") EXCEPT !.origin = "created",
                                !.account = safeUsername[2],
                                !.attempt = [username |-> safeUsername,
                                             existed |-> (safeUsername[2] \in DOMAIN accounts),
                                             matched |-> FALSE]]
     /\ inFlight' = IF location' = location THEN inFlight ELSE Unmounted(inFlight)
     /\ UNCHANGED <<mounts, skillDashboard, lessonPage, callVars>>

\* onClick of the Sign In button, which is disabled while loading.
signIn(username, password) ==
  LET safeUsername == sanitize(username)
      safePassword == sanitize(password)
  IN /\ location = "/signin"
     /\ ~accountPages.signIn.loading
     /\ IF ~Truthy(safeUsername) \/ ~Truthy(safePassword)
          THEN /\ accountPages' = [accountPages EXCEPT !.signIn.error =
                                     "Please fill in all fields"]
               /\ UNCHANGED inFlight
          ELSE /\ Len(inFlight.timers) < MaxInFlight
               /\ accountPages' = [accountPages EXCEPT !.signIn =
                                     [error |-> "", loading |-> TRUE]]
               /\ inFlight' = [inFlight EXCEPT !.timers =
                    Append(@, [mounted |-> TRUE, username |-> safeUsername,
                               password |-> safePassword])]
     /\ history' = [history EXCEPT !.last = "click"]
     /\ UNCHANGED <<userState, localStorage, location, mounts, skillDashboard,
                    lessonPage, callVars>>

\* The callback of signIn without its comparison of the password.
MatchesAlways(account, password) == TRUE

\* account.passwordHash === encodedPassword
Matches(account, password) ==
  "passwordHash" \in DOMAIN account /\ account.passwordHash = EncodeUtf8(password)

SameHash(account, password) ==
  "passwordHash" \in DOMAIN account /\ account.passwordHash = EncodeUtf8(password)

\* The callback that signIn hands to setTimeout.
signInTimer ==
  \E i \in DOMAIN inFlight.timers :
    LET timer == inFlight.timers[i]
        rest == [inFlight EXCEPT !.timers = Remove(@, i)]
        accounts == getAccounts(localStorage)
        name == timer.username[2]
        existed == name \in DOMAIN accounts
        matched == existed /\ Matches(accounts[name], timer.password)
        user == Spread(accounts[name], [loggedIn |-> Bool(TRUE)])
        shown(message) ==
          IF timer.mounted
            THEN [accountPages EXCEPT !.signIn = [error |-> message, loading |-> FALSE]]
            ELSE accountPages
    IN /\ IF ~existed
            THEN /\ accountPages' = shown("Account not found. Please create an account first.")
                 /\ inFlight' = rest
                 /\ history' = [history EXCEPT !.last = "signInRejected",
                                  !.attempt = [username |-> timer.username,
                                               existed |-> FALSE, matched |-> FALSE]]
                 /\ UNCHANGED <<userState, localStorage, location>>
          ELSE IF ~matched
            THEN /\ accountPages' = shown("Incorrect password. Please try again.")
                 /\ inFlight' = rest
                 /\ history' = [history EXCEPT !.last = "signInRejected",
                                  !.attempt = [username |-> timer.username,
                                               existed |-> TRUE, matched |-> FALSE]]
                 /\ UNCHANGED <<userState, localStorage, location>>
            ELSE /\ history.operations < MaxOperations
                 /\ userState' = user
                 /\ localStorage' = Persisted(localStorage, user)
                 /\ location' = "/dashboard"
                 /\ accountPages' = NoAccountPages
                 /\ inFlight' = Unmounted(rest)
                 /\ history' = [Operated(history, "signIn") EXCEPT !.origin = "signIn",
                                  !.account = name,
                                  !.attempt = [username |-> timer.username,
                                               existed |-> TRUE,
                                               matched |-> SameHash(accounts[name],
                                                                    timer.password)]]
       /\ UNCHANGED <<mounts, skillDashboard, lessonPage, callVars>>

\* handleSave of Profile up to its call of setUser; what follows the call
\* sets the feedback line of the page only.
handleSave(username) ==
  LET kept(field) == IF field \in DOMAIN userState THEN userState[field] ELSE EmptyStr
      updatedUser ==
        Spread(userState,
               [username |-> sanitize(username), email |-> sanitize(kept("email")[2]),
                industry |-> sanitize(kept("industry")[2]),
                resumeText |-> kept("resumeText")])
  IN /\ location = "/profile"
     /\ history.operations < MaxOperations
     /\ userState' = updatedUser
     /\ localStorage' = Persisted(localStorage, updatedUser)
     /\ history' = Operated(history, "save")
     /\ UNCHANGED <<location, mounts, skillDashboard, lessonPage, inFlight,
                    accountPages, callVars>>

\* handleSignOut of Dashboard, SkillDashboard and Profile.
handleSignOut ==
  /\ location \in ProtectedRoutes
  /\ history.operations < MaxOperations
  /\ userState' = NoUser
  /\ localStorage' = [Persisted(localStorage, NoUser) EXCEPT !.user = Null]
  /\ location' = "/"
  /\ inFlight' = Unmounted(inFlight)
  /\ history' = [Operated(history, "signOut") EXCEPT !.origin = "none",
                   !.signedOut = userState]
  /\ UNCHANGED <<mounts, skillDashboard, lessonPage, accountPages, callVars>>

\* What handleSubmit of Career adds to the user for the answers of one quiz.
QuizAnswers ==
  [careerAnswers |-> [goal |-> <<Text("Analyst")>>], onboarding |-> Bool(TRUE)]

\* handleSubmit of Career.
careerSubmit ==
  LET updatedUser == Spread(userState, QuizAnswers)
  IN /\ location = "/career"
     /\ history.operations < MaxOperations
     /\ userState' = updatedUser
     /\ localStorage' = Persisted(localStorage, updatedUser)
     /\ location' = "/upload"
     /\ inFlight' = Unmounted(inFlight)
     /\ history' = Operated(history, "quiz")
     /\ UNCHANGED <<mounts, skillDashboard, lessonPage, accountPages, callVars>>

\* handleUploadContinue (with a file chosen) and handleSkip of Upload.
\* setUser runs its updater at once when React has nothing pending for the
\* provider and with the next render otherwise, so the write of the
\* updater comes before or after the write of the handler.
handleUpload(uploaded, eager) ==
  LET updatedUser ==
        Spread(Own(userState),
               [resumeUploaded |-> Bool(uploaded), resumeSkills |-> <<>>])
      saved == Persisted(localStorage, updatedUser)
  IN /\ location = "/upload"
     /\ history.operations < MaxOperations
     /\ userState' = updatedUser
     /\ IF BtoaThrows(JSONText(updatedUser))
          THEN /\ localStorage' = saved
               /\ UNCHANGED <<location, inFlight>>
          ELSE /\ localStorage' = IF eager
                                    THEN [saved EXCEPT !.user = Btoa(JSONText(updatedUser))]
                                    ELSE saved
               /\ location' = "/dashboard"
               /\ inFlight' = Unmounted(inFlight)
     /\ history' = [Operated(history, "upload") EXCEPT
                      !.origin = IF userState = NoUser THEN "upload" ELSE @]
     /\ UNCHANGED <<mounts, skillDashboard, lessonPage, accountPages, callVars>>

\* completeLesson of LessonPage for a lesson of one skill, as it changes
\* the profile.
lessonCompleted ==
  /\ location = "/dashboard"
  /\ history.operations < MaxOperations
  /\ userState' = AwardSkill(Spread([skills |-> <<>>], userState), Text("Excel"))
  /\ userState' # userState
  /\ localStorage' = Persisted(localStorage, userState')
  /\ history' = Operated(history, "lesson")
  /\ UNCHANGED <<location, mounts, skillDashboard, lessonPage, inFlight,
                 accountPages, callVars>>

\* The page is loaded again: what was in memory and in flight is gone, and
\* the effect of UserProvider reads the store.
Reload ==
  LET stored == localStorage.user
      parsed == Decode(stored)
      accounts == Decode(localStorage.accounts)
      loggedIn == /\ "loggedIn" \in DOMAIN parsed /\ Truthy(parsed.loggedIn)
                  /\ "username" \in DOMAIN parsed /\ Truthy(parsed.username)
      restored ==
        CASE stored = Null -> NoUser
          [] DecodeThrows(stored) -> NoUser
          [] ~loggedIn -> parsed
          [] localStorage.accounts = Null -> parsed
          [] parsed.username[2] \in DOMAIN accounts ->
               Spread(accounts[parsed.username[2]], [loggedIn |-> Bool(TRUE)])
          [] OTHER -> NoUser
  IN /\ history.operations < MaxOperations
     /\ userState' = restored
     /\ localStorage' =
          IF stored # Null /\ ~DecodeThrows(stored) /\ restored = NoUser
            THEN [localStorage EXCEPT !.user = Null] ELSE localStorage
     /\ location' = Routed(location, restored)
     /\ inFlight' = NothingInFlight
     /\ accountPages' = NoAccountPages
     /\ history' = [Operated(history, "load") EXCEPT
                      !.origin = IF restored = NoUser THEN "none" ELSE @]
     /\ UNCHANGED <<mounts, skillDashboard, lessonPage, callVars>>

\* The store of a browser in which ana has created an account, taken the
\* quiz and signed out.
ReturningStore ==
  LET form == [username |-> Str(<<"ana">>), email |-> Str(<<"ana", "@", "x.org">>),
               password |-> Str(<<"pw1">>)]
      newUser == Spread(NewAccount(form), [loggedIn |-> Bool(TRUE)])
      created == Persisted(saveAccount(NoStorage, <<"ana">>, NewAccount(form)), newUser)
      quizzed == Persisted(created, Spread(newUser, QuizAnswers))
  IN Persisted(quizzed, NoUser)

\* The browser is new or has been used by ana before.
InitAccount ==
  /\ fn = "evaluateAnswer"
  /\ ctx = EmptyObj
  /\ pc = "idle"
  /\ requests = 0
  /\ fallbacks = 0
  /\ httpOk = TRUE
  /\ reply = NoReply
  /\ failure = "none"
  /\ result = Undefined
  /\ previous = NoPrevious
  /\ userState = NoUser
  /\ location = "/"
  /\ mounts = 0
  /\ skillDashboard = NoDashboard
  /\ lessonPage = NoLessonPage
  /\ inFlight = NothingInFlight
  /\ history = AccountHistory
  /\ localStorage \in {NoStorage, ReturningStore}
  /\ accountPages = NoAccountPages

NextAccount ==
  \/ \E route \in PublicRoutes \cup ProtectedRoutes : Visit(route)
  \/ \E typed \in Registrations : handleSubmit(typed)
  \/ \E username \in TypedNames, password \in TypedPasswords :
       signIn(username, password)
  \/ signInTimer
  \/ \E username \in TypedNames : handleSave(username)
  \/ handleSignOut
  \/ careerSubmit
  \/ \E uploaded, eager \in BOOLEAN : handleUpload(uploaded, eager)
  \/ lessonCompleted
  \/ Reload

SpecAccount == InitAccount /\ [][NextAccount]_vars

\* ------------------------------------------------------------------------
\* Vocabulary of the properties.
\* ------------------------------------------------------------------------
Settled == pc \in {"done", "rejected"}
Returned == pc = "done"
ViaFallback == fallbacks > 0
ViaSuccess == pc = "done" /\ fallbacks = 0

Has(v, key) == IsObj(v) /\ <<key>> \in DOMAIN v[2] /\ ~IsNullish(v[2][<<key>>])
HasAll(v, keys) == \A k \in keys : Has(v, k)
Elems(a) == {a[2][i] : i \in 1..Len(a[2])}

LessonTextFields == {"title", "description", "relevance"}
LessonChallengeFields == {"scenario", "question", "hint"}
ChallengeFields == {"scenario", "challenge", "hint"}
EvaluationFields == {"isCorrect", "score", "feedback", "suggestions", "canProceed"}

\* ------------------------------------------------------------------------
\* Properties.
\* ------------------------------------------------------------------------

\* C1: for every context and every outcome of the remote call, the promise
\* of generateLessons, generateLessonChallenge and evaluateAnswer resolves
\* to a value; it never rejects, also not when the catch block is what
\* fails.
C1_NeverRejects == pc # "rejected"

\* C2: whenever the remote step fails - transport failure, a body that is
\* no JSON or carries no completion text, text from which no JSON can be
\* parsed (ParseError), or parsed JSON that is not of the expected
\* top-level kind (ShapeError) - the value returned is exactly the fallback
\* for the same context, whatever the kind of failure, and it is not empty.
ExpectedKind(f, v) == IF f = "generateLessons" THEN IsArr(v) ELSE IsObj(v)
Extracted == Extract(ReplyText(reply), OpenOf(fn), CloseOf(fn))
RemoteFailed ==
  \/ failure \in {"network", "body"}
  \/ reply.kind = "body"
  \/ /\ reply.kind = "text"
     /\ \/ ~Extracted.ok
        \/ ~ExpectedKind(fn, Extracted.val)
NonEmptyValue(v) == IF IsArr(v) THEN Len(v[2]) > 0 ELSE IsObj(v) /\ DOMAIN v[2] # {}
C2_FailureYieldsFallback ==
  (Returned /\ RemoteFailed) =>
     /\ Fallback(fn, ctx).kind = "return"
     /\ result = Fallback(fn, ctx).val
     /\ NonEmptyValue(result)

\* C3: every value returned, on the success path and on the fallback path,
\* has every field of its shape, none undefined or null: lessons with
\* title, description, relevance and a challenges list of entries with
\* scenario, question and hint; a challenge with scenario, challenge and
\* hint; an evaluation with isCorrect, score, feedback, suggestions and
\* canProceed.
CompleteLesson(l) ==
  /\ HasAll(l, LessonTextFields)
  /\ Has(l, "challenges")
  /\ IsArr(Get(l, "challenges"))
  /\ \A c \in Elems(Get(l, "challenges")) : HasAll(c, LessonChallengeFields)
CompleteValue(f, v) ==
  CASE f = "generateLessons" -> IsArr(v) /\ \A l \in Elems(v) : CompleteLesson(l)
    [] f = "generateLessonChallenge" -> HasAll(v, ChallengeFields)
    [] OTHER -> HasAll(v, EvaluationFields)
C3_ReturnedShapeComplete == Returned => CompleteValue(fn, result)

\* C3 witness: a lesson list returned on the success path for a payload in
\* which a lesson lacks relevance and challenges and a challenge entry lacks
\* question and hint.
C3_Witness ==
  /\ fn = "generateLessons"
  /\ ViaSuccess
  /\ Len(result[2]) = 2
  /\ \E e \in Elems(reply.payload) : ~Has(e, "relevance") /\ ~Has(e, "challenges")
  /\ \E e \in Elems(reply.payload) :
       /\ IsArr(Get(e, "challenges"))
       /\ \E c \in Elems(Get(e, "challenges")) : ~Has(c, "hint")

\* C4: generateLessons never returns an empty list, not even when the
\* completion holds a valid empty array.
C4_LessonsNeverEmpty ==
  (fn = "generateLessons" /\ Returned) => IsArr(result) /\ Len(result[2]) >= 1

\* C5: every returned record conforms to its types whatever JSON the model
\* supplied: textual fields are strings, isCorrect and canProceed booleans,
\* score a number, every challenges entry a challenge record.
IsBool(v) == Tag(v) = "boolean"
IsNumber(v) == Tag(v) = "number" \/ v = NaN
AllStr(v, keys) == \A k \in keys : IsStr(Get(v, k))
TypedLesson(l) ==
  /\ AllStr(l, LessonTextFields)
  /\ IsArr(Get(l, "challenges"))
  /\ \A c \in Elems(Get(l, "challenges")) : AllStr(c, LessonChallengeFields)
TypedValue(f, v) ==
  CASE f = "generateLessons" -> IsArr(v) /\ \A l \in Elems(v) : TypedLesson(l)
    [] f = "generateLessonChallenge" -> AllStr(v, ChallengeFields)
    [] OTHER -> /\ IsBool(Get(v, "isCorrect")) /\ IsBool(Get(v, "canProceed"))
                /\ IsNumber(Get(v, "score"))
                /\ AllStr(v, {"feedback", "suggestions"})
C5_ReturnedTypeConforming == Returned => TypedValue(fn, result)

\* C6: one invocation issues at most one request; a failure leads straight
\* to the fallback, which is computed once, and the invocation is over: no
\* second request follows.
C6_OneRequestOneFallback ==
  /\ requests <= 1
  /\ fallbacks <= 1
  /\ (failure # "none") <=> (fallbacks = 1)
  /\ fallbacks = 1 => Settled
  /\ Settled => (requests = 1 \/ failure = "prompt")

\* C6 witness: the transport failed after the one request and the fallback
\* was returned.
C6_Witness ==
  /\ Returned /\ failure = "network" /\ requests = 1 /\ fallbacks = 1

\* C7 (as claimed): for a payload of the expected kind with prose before
\* and after it in which the delimiters of that kind are balanced, the
\* slice from the first opening to the last closing delimiter parses to a
\* structure equal to the payload.
RECURSIVE Depths(_, _, _, _)
Depths(text, open, close, d) ==
  IF text = <<>> THEN <<d>>
  ELSE LET n == IF Head(text) = P(open) THEN d + 1
                ELSE IF Head(text) = P(close) THEN d - 1 ELSE d
       IN <<d>> \o Depths(Tail(text), open, close, n)
Balanced(text, open, close) ==
  LET ds == Depths(text, open, close, 0) IN
  /\ ds[Len(ds)] = 0
  /\ \A i \in 1..Len(ds) : ds[i] >= 0
DelimiterFree(text, open, close) ==
  \A i \in 1..Len(text) : text[i] \notin {P(open), P(close)}
PayloadSent ==
  /\ reply.kind = "text"
  /\ reply.payload # Undefined
  /\ ExpectedKind(fn, reply.payload)
C7_RoundTripBalancedProse ==
  (/\ PayloadSent
   /\ Balanced(reply.pre, OpenOf(fn), CloseOf(fn))
   /\ Balanced(reply.suf, OpenOf(fn), CloseOf(fn)))
    => (Extracted.ok /\ Extracted.val = reply.payload)

\* C7 (amended): with prose before and after the payload that holds no
\* delimiter of the payload's kind, the slice parses to a structure equal
\* to the payload.
C7_RoundTripDelimiterFreeProse ==
  (/\ PayloadSent
   /\ DelimiterFree(reply.pre, OpenOf(fn), CloseOf(fn))
   /\ DelimiterFree(reply.suf, OpenOf(fn), CloseOf(fn)))
    => (Extracted.ok /\ Extracted.val = reply.payload)

\* C7 witness: a lesson array with a nested challenges array, prose on both
\* sides, was extracted.
C7_Witness ==
  /\ fn = "generateLessons"
  /\ PayloadSent
  /\ reply.pre = <<X>> /\ reply.suf = <<X>>
  /\ \E e \in Elems(reply.payload) : IsArr(Get(e, "challenges"))
  /\ Extracted.val = reply.payload

Min(a, b) == IF a < b THEN a ELSE b
NonEmptyText(v) == IsStr(v) /\ v # EmptyStr
GivenSkills == IF Has(ctx, "skills") THEN Get(ctx, "skills") ELSE Arr(<<>>)
C9_FallbackLessons ==
  (fn = "generateLessons" /\ Returned /\ ViaFallback /\ IsArr(GivenSkills)) =>
    LET skills == GivenSkills[2]
        lessons == result[2]
    IN
    IF Len(skills) >= 1
      THEN /\ Len(lessons) = Min(Len(skills), 3)
           /\ \A i \in 1..Len(lessons) :
                Includes(Get(lessons[i], "title")[2], skills[i][2])
      ELSE /\ Len(lessons) = 3
           /\ Get(lessons[1], "title") = Text("Effective Problem-Solving Strategies")
           /\ Get(lessons[2], "title") =
                Text("Professional Communication and Stakeholder Management")
           /\ Get(lessons[3], "title") = Text("Time Management and Prioritization")
           /\ \A i \in 1..3 : \A k \in LessonTextFields :
                NonEmptyText(Get(lessons[i], k))

\* C9 witness: the fallback ran for a user with more than three skills.
C9_Witness ==
  /\ fn = "generateLessons" /\ Returned /\ ViaFallback
  /\ IsArr(GivenSkills) /\ Len(GivenSkills[2]) > 3

\* C10 (as claimed): when the completion holds a valid JSON array of k
\* lesson objects, k lessons are returned in the same order; every title,
\* description and relevance that was present is returned unchanged, and
\* every missing one is replaced by a non-empty default string.
LessonObject(e) ==
  /\ IsObj(e)
  /\ IsArr(Get(e, "challenges")) => \A c \in Elems(Get(e, "challenges")) : ~IsNullish(c)
LessonArrayReceived ==
  /\ fn = "generateLessons"
  /\ Settled
  /\ reply.kind = "text"
  /\ IsArr(reply.payload)
  /\ \A e \in Elems(reply.payload) : LessonObject(e)
  /\ Extracted.ok /\ Extracted.val = reply.payload
IsPresent(e, k) == <<k>> \in DOMAIN e[2]
C11_NonOkYieldsFallback ==
  (Returned /\ ~httpOk) =>
     /\ ViaFallback
     /\ result = Fallback(fn, ctx).val

\* What the fallback evaluation is stated in terms of: the answer, its
\* length as given and with leading and trailing whitespace removed, and the
\* number of keyword matches - keywords being the words of the challenge
\* text longer than four characters, the words of the skill name longer
\* than three, and the twelve fixed terms; a keyword matches when it occurs
\* in the lower-cased answer.
AnswerOf == Get(ctx, "userAnswer")
RawLength == TextLen(AnswerOf[2])
TrimmedLength == TextLen(Trim(AnswerOf[2]))
WordsOf(v, min) ==
  IF IsStr(v) THEN LongWords(ToLowerCase(v[2]), <<>>, min) ELSE <<>>
Matching(words) ==
  Cardinality({i \in 1..Len(words) : Includes(ToLowerCase(AnswerOf[2]), words[i])})
KeywordMatches ==
  Matching(WordsOf(Get(ctx, "challenge"), 4))
    + Matching(WordsOf(Get(ctx, "skill"), 3))
    + Matching(GenericTerms)
FallbackEvaluated == fn = "evaluateAnswer" /\ Returned /\ ViaFallback
ScoreFor(length) ==
  (CASE length > 200 -> 60
     [] length > 100 -> 50
     [] length > 50 -> 30
     [] OTHER -> 0)
    + (IF KeywordMatches >= 2 THEN 40 ELSE 0)
ScoredAs(score) ==
  /\ Get(result, "score") = Num(score)
  /\ Get(result, "isCorrect") = Bool(score >= 70)
  /\ Get(result, "canProceed") = Bool(score >= 60)

\* C12 (as claimed): on remote failure the score of evaluateAnswer is 30
\* for an answer longer than 50 characters, plus 20 when longer than 100,
\* plus 10 when longer than 200, plus 40 for at least two keyword matches;
\* isCorrect is score >= 70 and canProceed is score >= 60.
C12_FallbackScoreByLength == FallbackEvaluated => ScoredAs(ScoreFor(RawLength))

\* C12 (amended): the same, with the length taken after leading and
\* trailing whitespace has been removed from the answer.
C12_FallbackScoreByTrimmedLength ==
  FallbackEvaluated => ScoredAs(ScoreFor(TrimmedLength))

\* C12 witness: a fallback evaluation of an answer longer than 200
\* characters after trimming, with two keyword matches and whitespace
\* around it.
C12_Witness ==
  /\ FallbackEvaluated
  /\ TrimmedLength > 200
  /\ RawLength > TrimmedLength
  /\ KeywordMatches >= 2
  /\ Get(result, "score") = Num(100)

\* C13 (as claimed): on remote failure every answer of more than 200
\* characters with two keyword matches scores at least 70 and may proceed,
\* whatever characters, leading and trailing whitespace included, make up
\* its length.
ScoreAtLeast(n) ==
  /\ Tag(Get(result, "score")) = "number"
  /\ Get(result, "score")[2] >= n
C13_LongAnswerPasses ==
  (FallbackEvaluated /\ RawLength > 200 /\ KeywordMatches >= 2) =>
     /\ ScoreAtLeast(70)
     /\ Get(result, "canProceed") = Bool(TRUE)

\* C13 (amended): the same for every answer that is more than 200
\* characters long once leading and trailing whitespace is removed.
C13_LongTrimmedAnswerPasses ==
  (FallbackEvaluated /\ TrimmedLength > 200 /\ KeywordMatches >= 2) =>
     /\ ScoreAtLeast(70)
     /\ Get(result, "canProceed") = Bool(TRUE)

\* C13 witness: a fallback evaluation that lets through an answer of more
\* than 200 characters with exactly two keyword matches.
C13_Witness ==
  /\ FallbackEvaluated
  /\ TrimmedLength > 200
  /\ KeywordMatches = 2
  /\ Get(result, "canProceed") = Bool(TRUE)

\* C14: on the success path both flags follow the threshold score >= 70:
\* evaluateAnswer returns isCorrect = true or canProceed = true only
\* together with a returned score of at least 70.
SuccessEvaluated == fn = "evaluateAnswer" /\ ViaSuccess
C14_SuccessFlagsNeedSeventy ==
  (SuccessEvaluated /\ (Truthy(Get(result, "isCorrect"))
                          \/ Truthy(Get(result, "canProceed")))) =>
     ScoreAtLeast(70)

\* C15: the score of every evaluation returned by evaluateAnswer is a
\* number within [0, 100], on the fallback path and on the success path,
\* whatever JSON value the completion holds in its score field.
C15_ScoreWithinRange ==
  (fn = "evaluateAnswer" /\ Returned) =>
     /\ Tag(Get(result, "score")) = "number"
     /\ Get(result, "score")[2] \in 0..100

\* ------------------------------------------------------------------------
\* C16: an empty or whitespace-only userAnswer is rejected before any
\* network call is made: evaluateAnswer issues no request for it and
\* returns no evaluation of it.
BlankAnswer == IsStr(AnswerOf) /\ Trim(AnswerOf[2]) = <<>>
C16_BlankAnswerRejected ==
  (fn = "evaluateAnswer" /\ BlankAnswer) => requests = 0 /\ ~Returned

\* ------------------------------------------------------------------------
\* C17: once the challenges of a lesson or the lessons of a skill have been
\* generated, the result is stored in the profile under the lesson title or
\* the skill, and no generation is started for that lesson or skill again.
GeneratedAreStored ==
  userState # NoUser =>
  \A g \in history.generated :
    IF g[1] = "skill"
      THEN g[2] \in DOMAIN userState.skillLessons
      ELSE g[2] \in DOMAIN userState.savedLessons
C18_LevelCountsCompletions ==
  userState # NoUser =>
  /\ \A safeSkill \in DOMAIN userState.completedLessons :
       \A title \in DOMAIN userState.completedLessons[safeSkill] :
         userState.completedLessons[safeSkill][title].level
           = CompletionsOf(history, <<safeSkill, title>>)
  /\ \A key \in DOMAIN history.completions :
       LevelOf(userState, key[1], key[2]) = history.completions[key]

\* ------------------------------------------------------------------------
\* C19: the learner is at challenge i only when, for every earlier
\* challenge of the lesson, an evaluation of an answer to it has returned
\* canProceed = true on this page; the lesson is completed only when that
\* is so for every challenge of the lesson.
C19_ProceedsOnlyWhenPassed ==
  lessonPage.mounted =>
    /\ \A i \in 0..(lessonPage.currentIndex - 1) : i \in history.passed
    /\ lessonPage.completed =>
         \A i \in 0..(Len(lessonPage.challenges) - 1) : i \in history.passed

\* The same with any truthy canProceed counting as a pass.
ProceedsOnlyWhenTruthy ==
  lessonPage.mounted =>
    /\ \A i \in 0..(lessonPage.currentIndex - 1) : i \in history.truthyPassed
    /\ lessonPage.completed =>
         \A i \in 0..(Len(lessonPage.challenges) - 1) : i \in history.truthyPassed

\* ------------------------------------------------------------------------
\* C20: the list of acquired skills never holds the same name twice.
C20_SkillsWithoutDuplicates ==
  userState # NoUser =>
  \A i, j \in 1..Len(userState.skills) :
    i # j => userState.skills[i] # userState.skills[j]

\* C20 witness: the returning learner, who had the skill Excel already, has
\* completed a lesson of Excel.
C20_Witness ==
  /\ lessonPage.mounted
  /\ lessonPage.completed
  /\ lessonPage.skill = Text("Excel")
  /\ userState.skills = ReturningLearner.skills
  /\ CompletionsOf(history, CompletionKey(lessonPage)) = 1

\* ------------------------------------------------------------------------
\* Accounts and the durable store.

\* The handlers that end in a call of setUser.
ViaSetUser == {"create", "signIn", "save", "signOut", "quiz", "upload", "lesson"}

\* C21: after every profile mutation made through setUser the 'user' entry
\* of the store decodes to exactly the user in memory when that is not
\* null, and is absent when it is null.
C21_StoreAgreesWithProfile ==
  history.last \in ViaSetUser =>
    IF userState = NoUser
      THEN localStorage.user = Null
      ELSE /\ localStorage.user # Null
           /\ ~DecodeThrows(localStorage.user)
           /\ Decode(localStorage.user) = userState

\* The same for the handlers that leave the store to setUser: Upload writes
\* the entry once more itself.
StoreAgreesAfterSetUserAlone ==
  history.last \in ViaSetUser \ {"upload"} =>
    IF userState = NoUser
      THEN localStorage.user = Null
      ELSE /\ localStorage.user # Null
           /\ ~DecodeThrows(localStorage.user)
           /\ Decode(localStorage.user) = userState

\* ------------------------------------------------------------------------
\* C22: a protected page is shown only for a user of a session that a
\* successful sign-in or account creation started (or that was restored
\* from such a session); otherwise the route shows the sign-in page.
C22_ProtectedOnlyForSignedIn ==
  location \in ProtectedRoutes =>
    userState # NoUser /\ history.origin \in {"signIn", "created"}

\* The test that ProtectedRoute makes: a user that is not null.
ProtectedOnlyForUser == location \in ProtectedRoutes => userState # NoUser

\* ------------------------------------------------------------------------
\* C23: a lesson page that is generating challenges comes to a state in
\* which no generation is in flight: once the three challenges are saved
\* the effect finds them and makes no further remote call.
C23_GenerationStops ==
  (inFlight.fetches # <<>>) ~> (inFlight.fetches = <<>>)

\* C23 witness: the three challenges of the open lesson have been generated
\* and saved, the effect has run again for the new profile and nothing is
\* in flight.
C23_Witness ==
  /\ lessonPage.mounted
  /\ <<"lesson", TitleOf(lessonPage.lesson)>> \in history.generated
  /\ Len(lessonPage.challenges) = challengeCount
  /\ userState \notin {NewLearner, ReturningLearner}
  /\ inFlight.fetches = <<>>

\* ------------------------------------------------------------------------
\* C24: after sign-out the user stays null and the store has no 'user'
\* entry, and a generation that was in flight at sign-out ends without
\* changing either and without an error.
C24_SignedOutStaysSignedOut ==
  /\ userState = NoUser => localStorage.user = Null
  /\ history.errors = {}

\* After sign-out the user stays null and the store has no 'user' entry.
SignedOutLeavesNoEntry == userState = NoUser => localStorage.user = Null

\* ------------------------------------------------------------------------
\* The lessons that the profile holds for a skill, as the panel shows them.
LessonsOf(skill) ==
  IF skill # Null /\ skill[2] \in DOMAIN userState.skillLessons
    THEN SanitizeLessons(userState.skillLessons[skill[2]]) ELSE <<>>

\* C25: whenever no generation of lessons is in flight, the lessons panel of
\* the dashboard shows the lessons of the selected skill (or none), and the
\* lesson of a lesson page is one of the lessons of the skill of that page.
C25_PanelShowsSelectedSkill ==
  /\ (/\ skillDashboard.mounted
      /\ skillDashboard.selectedSkill # Null
      /\ inFlight.nodeClicks = <<>>)
       => skillDashboard.aiLessons \in {<<>>, LessonsOf(skillDashboard.selectedSkill)}
  /\ lessonPage.mounted
       => \E i \in 1..Len(LessonsOf(lessonPage.skill)) :
            LessonsOf(lessonPage.skill)[i] = lessonPage.lesson

\* ------------------------------------------------------------------------
\* The handlers that change the profile of the user who is signed in.
ProfileMutations == {"save", "quiz", "upload", "lesson"}

\* C26: a profile mutation of the signed-in user leaves the registry
\* entries of all other accounts as they were, passwordHash included.
C26_OtherAccountsUntouched ==
  [][history'.last \in ProfileMutations /\ history'.operations # history.operations
       => \A name \in DOMAIN getAccounts(localStorage) \ {history.account} :
            /\ name \in DOMAIN getAccounts(localStorage')
            /\ getAccounts(localStorage')[name] = getAccounts(localStorage)[name]]_vars

\* The same for the mutations that keep the username of the session.
OtherAccountsUntouchedUnlessRenamed ==
  [][(/\ history'.last \in ProfileMutations
      /\ history'.operations # history.operations
      /\ "username" \in DOMAIN userState'
      /\ userState'.username[2] = history.account)
       => \A name \in DOMAIN getAccounts(localStorage) \ {history.account} :
            /\ name \in DOMAIN getAccounts(localStorage')
            /\ getAccounts(localStorage')[name] = getAccounts(localStorage)[name]]_vars

\* ------------------------------------------------------------------------
\* The callback of a sign-in has run in this step.
SignInAnswered ==
  /\ history'.last \in {"signIn", "signInRejected"}
  /\ Len(inFlight'.timers) < Len(inFlight.timers)

\* What the sign-in of timer i has to do, the error being shown always or
\* when the page that started the timer is still mounted.
SignInOutcome(i, always) ==
  LET timer == inFlight.timers[i]
      accounts == getAccounts(localStorage)
      name == timer.username[2]
  IN IF name \in DOMAIN accounts /\ SameHash(accounts[name], timer.password)
       THEN /\ userState' = Spread(accounts[name], [loggedIn |-> Bool(TRUE)])
            /\ location' = "/dashboard"
       ELSE /\ userState' = userState
            /\ localStorage'.user = localStorage.user
            /\ location' = location
            /\ (always \/ timer.mounted) => accountPages'.signIn.error # ""

\* C27 as stated: sign-in establishes a session exactly when the registry
\* has an entry for the username and the encoded password equals its
\* passwordHash; otherwise the user and the 'user' entry are unchanged and
\* an error message is shown.
C27_SignInExactlyWhenMatching ==
  [][SignInAnswered
       => \E i \in DOMAIN inFlight.timers : SignInOutcome(i, TRUE)]_vars

\* C27 as the code has it: the error message is shown when the sign-in
\* page is still mounted at the time the answer comes.
C27_SignInExactlyWhenMatchingMounted ==
  [][SignInAnswered
       => \E i \in DOMAIN inFlight.timers : SignInOutcome(i, FALSE)]_vars

\* A wrong password for an existing account has been rejected on the page.
C27_Witness ==
  /\ history.last = "signInRejected"
  /\ history.attempt.existed
  /\ ~history.attempt.matched
  /\ location = "/signin"
  /\ accountPages.signIn.error = "Incorrect password. Please try again."

\* ------------------------------------------------------------------------
\* The form of CreateAccount has been submitted with the username `name`
\* in this step.
Submitted(name) ==
  /\ location = "/create-account"
  /\ history'.last \in {"create", "createRejected"}
  /\ history'.attempt.username = Str(name)

\* C28: creating an account with a username that is in the registry is
\* rejected: the registry is left as it was, entry, passwordHash and
\* progress included, and no session is started for the submitter.
C28_ExistingUsernameRejected ==
  [][\A name \in DOMAIN getAccounts(localStorage) :
       Submitted(name)
         => /\ history'.last = "createRejected"
            /\ localStorage' = localStorage
            /\ userState' = userState
            /\ location' = location
            /\ accountPages'.createAccount.error # ""]_vars

\* A creation under the username of an account that has progress has been
\* rejected while nobody was signed in.
C28_Witness ==
  /\ history.last = "createRejected"
  /\ history.attempt.existed
  /\ userState = NoUser
  /\ localStorage.user = Null
  /\ \E name \in DOMAIN getAccounts(localStorage) :
       /\ history.attempt.username = Str(name)
       /\ getAccounts(localStorage)[name].careerAnswers # NoEntries

\* ------------------------------------------------------------------------
\* A sign-in under the username of the profile that was signed out has
\* succeeded in this step, nothing having changed the store in between.
SignedInAgain ==
  /\ history.signedOut # NoUser
  /\ "username" \in DOMAIN history.signedOut
  /\ history'.last = "signIn"
  /\ history'.operations # history.operations
  /\ history'.attempt.username = history.signedOut.username

\* C29: sign-out followed by sign-in with the correct password restores the
\* profile as it was at sign-out, in every field.
C29_SignInRestoresProfile ==
  [][SignedInAgain => userState' = history.signedOut]_vars

\* The same for a profile whose username has been that of the session's
\* account all along.
SignInRestoresOwnProfile ==
  [][SignedInAgain /\ history.signedOut.username = Str(history.account)
       => userState' = history.signedOut]_vars

\* ------------------------------------------------------------------------
\* The evaluations in flight that the lesson page of mount m has started.
EvaluationsOf(m) ==
  {i \in DOMAIN inFlight.evaluations : inFlight.evaluations[i].mount = m}

AtMostOneEvaluation ==
  \A m \in 0..MaxMounts : Cardinality(EvaluationsOf(m)) <= 1

\* The evaluation of the open lesson page has ended in this step.
EvaluationEnded ==
  /\ lessonPage.mounted /\ lessonPage.isEvaluating
  /\ lessonPage'.mounted /\ ~lessonPage'.isEvaluating

\* C30 as stated: at most one evaluation is in flight per lesson page, every
\* submission leaves the evaluating state, and it ends with the Next button
\* enabled or with feedback and the Submit button enabled again.
C30_EvaluationEnds ==
  /\ []AtMostOneEvaluation
  /\ (lessonPage.isEvaluating ~> ~lessonPage.isEvaluating)
  /\ [][EvaluationEnded
          => \/ lessonPage'.showNextButton
             \/ /\ lessonPage'.feedback # EmptyStr
                /\ SubmitEnabled(lessonPage')]_vars

\* C30 as the code has it: the Submit button is enabled again unless the
\* answer box has been emptied in the meantime.
C30_EvaluationEndsUnlessBlank ==
  /\ []AtMostOneEvaluation
  /\ (lessonPage.isEvaluating ~> ~lessonPage.isEvaluating)
  /\ [][EvaluationEnded
          => \/ lessonPage'.showNextButton
             \/ /\ lessonPage'.feedback # EmptyStr
                /\ SubmitEnabled(lessonPage') \/ Blank(lessonPage'.answer)]_vars

\* An answer has been evaluated as needing improvement on the open page,
\* and Submit is enabled again.
C30_Witness ==
  /\ lessonPage.mounted
  /\ lessonPage.attempts > 0
  /\ lessonPage.evaluationResult # Null
  /\ ~lessonPage.isEvaluating
  /\ ~lessonPage.showNextButton
  /\ SubmitEnabled(lessonPage)
  /\ inFlight.evaluations = <<>>

====
